---- MODULE Spec2Model ----
(***************************************************************************)
(* Model of the backend library libstq:                                    *)
(*   db/src/statement.rs   the SQL statement builders                      *)
(*   db/src/connection.rs  the connection resource (Transaction / plain)   *)
(*   db/src/pool.rs        Pool::run, one unit of work in one transaction  *)
(*   db/src/repo.rs        DbRepoImpl and the _exactly_one helpers         *)
(*   acl/src/lib.rs        AclEngine::ensure_access and the shipped engines*)
(*   roles/src/repo.rs     check_acl and make_repo                         *)
(*   cache/src/cache       TypedCache over InMemoryCache                   *)
(*   http/src/client       TimeLimitedHttpClient, ClientHandle retries     *)
(*                                                                         *)
(* SQL text is a sequence of tokens: literal pieces, identifiers (byte     *)
(* sequences, ordered as Rust orders &str), "$n" placeholders and inline   *)
(* numbers.  The specifications share the module and its initial state:    *)
(*   SpecStmt   the statement builders                                     *)
(*   Spec       Pool::run with a unit of work of DbRepoImpl operations     *)
(*   SpecOwn    Spec with a unit that may end the transaction itself       *)
(*   SpecAcl    one AclEngine::ensure_access call                          *)
(*   SpecCache  a TypedCache over an InMemoryCache                         *)
(*   SpecHttp   a TimeLimitedHttpClient and its clone                      *)
(*   SpecRetry  ClientHandle::simple_request, every attempt resolving      *)
(***************************************************************************)
EXTENDS Integers, Sequences, FiniteSets, TLC

VARIABLES
    bpc,        \* statement builders: which builder is under construction
    fob,        \* the FilteredOperationBuilder
    ub,         \* the UpdateBuilder
    ib,         \* the InsertBuilder
    built,      \* what build() returned: [by, sql, args]
    lastFilter, \* per column, the range of the last with_filter call and whether it replaced one
    pc,         \* Pool::run: idle, opening, unit, committing, rollingback, done, panicked, dropped
    idle,       \* the connections checked in at the underlying (bb8) pool
    conn,       \* the connection of the run: [id, kind, holder]
    calls,      \* the driver calls issued on the connection in this run, in order
    op,         \* the DbRepoImpl operation the unit of work is running
    unit,       \* the unit of work: [n: operations started,
                \* own: none/sent/done, its own commit2 or rollback2, res: its result,
                \* ended: none/ok/failed, how Pool::run's commit2 or rollback2 resolved]
    runRes,     \* what Pool::run resolved to
    acl,        \* one AclEngine::ensure_access call: [pc, engine, f, given, verdict, res]
    cache,      \* a TypedCache over an InMemoryCache: [store, latest, last]
    http,       \* a TimeLimitedHttpClient and its clones: [made, limit, time_left, now, reqs, inner]
    retry       \* one ClientHandle::simple_request: [pc, max_retries, retries, last_err,
                \* attempts, outcomes, res]

stmtVars == <<bpc, fob, ub, ib, built, lastFilter>>
poolVars == <<pc, idle, conn, calls, op, unit, runRes>>
nonStmtVars == <<poolVars, acl, cache, http, retry>>
nonPoolVars == <<stmtVars, acl, cache, http, retry>>
nonAclVars == <<stmtVars, poolVars, cache, http, retry>>
nonCacheVars == <<stmtVars, poolVars, acl, http, retry>>
nonHttpVars == <<stmtVars, poolVars, acl, cache, retry>>
nonRetryVars == <<stmtVars, poolVars, acl, cache, http>>
vars == <<bpc, fob, ub, ib, built, lastFilter, pc, idle, conn, calls, op, unit, runRes, acl, cache, http,
         retry>>

----------------------------------------------------------------------------
(* Bounds of the statement inputs *)

\* bound values are 1..MaxVal
MaxVal == 2
\* Range::In carries at most MaxInLen values
MaxInLen == 1

Vals == 1..MaxVal

----------------------------------------------------------------------------
(* Identifiers: &'static str as byte sequences *)

NameA == <<97>>
NameAB == <<97, 98>>
NameB == <<98>>
TableName == <<116>>

FilterColumns == {NameA, NameAB}
ValueColumns == {NameAB, NameB}
InsertColumns == {NameA, NameAB, NameB}
Extras == {"", "ORDER BY id"}

\* Ord for str: bytewise lexicographic, a proper prefix is smaller
RECURSIVE StrLess(_, _)
StrLess(a, b) ==
    IF a = <<>> THEN b # <<>>
    ELSE IF b = <<>> THEN FALSE
    ELSE IF Head(a) # Head(b) THEN Head(a) < Head(b)
    ELSE StrLess(Tail(a), Tail(b))

RECURSIVE SortedKeysDescending(_)
SortedKeysDescending(S) ==
    IF S = {} THEN <<>>
    ELSE LET m == CHOOSE k \in S : \A j \in S \ {k} : StrLess(j, k)
         IN  <<m>> \o SortedKeysDescending(S \ {m})

\* BTreeMap iteration: keys in ascending order
RECURSIVE SortedKeys(_)
SortedKeys(S) ==
    IF S = {} THEN <<>>
    ELSE LET m == CHOOSE k \in S : \A j \in S \ {k} : StrLess(k, j)
         IN  <<m>> \o SortedKeys(S \ {m})

EmptyMap == [k \in {} |-> <<>>]

\* BTreeMap::insert: the entry of key k is replaced
MapInsert(m, k, v) == [x \in (DOMAIN m) \cup {k} |-> IF x = k THEN v ELSE m[x]]

----------------------------------------------------------------------------
(* SQL text tokens *)

Lit(s) == [k |-> "lit", s |-> s, c |-> <<>>, n |-> 0]
Ident(c) == [k |-> "ident", s |-> "", c |-> c, n |-> 0]
Ph(n) == [k |-> "ph", s |-> "", c |-> <<>>, n |-> n]
Num(n) == [k |-> "num", s |-> "", c |-> <<>>, n |-> n]

\* Box<ToSql>: a scalar, or a Vec bound as one array argument
BoxScalar(v) == [arr |-> FALSE, items |-> <<v>>]
BoxArray(vs) == [arr |-> TRUE, items |-> vs]

NoLimit == [some |-> FALSE, v |-> 0]
SomeLimit(v) == [some |-> TRUE, v |-> v]

\* impl Display for ComparisonMode
ModeDisplay(mode) ==
    CASE mode = "LT" -> "<"
      [] mode = "LTE" -> "<="
      [] mode = "EQ" -> "="
      [] mode = "GTE" -> ">="
      [] mode = "GT" -> ">"
      [] mode = "IN" -> "in"

\* ComparisonMode::arg
ModeArg(mode, arg_number) ==
    IF mode = "IN"
    THEN <<Lit("= any("), Ph(arg_number), Lit(")")>>
    ELSE <<Lit(ModeDisplay(mode)), Lit(" "), Ph(arg_number)>>

----------------------------------------------------------------------------
(* Range and with_filter *)

RangeLimit(value, inclusive) == [value |-> value, inclusive |-> inclusive]
NoRangeLimit == RangeLimit(0, FALSE)

Exact(v) == [tag |-> "Exact", v |-> v, from |-> NoRangeLimit, to |-> NoRangeLimit, values |-> <<>>]
From(l) == [tag |-> "From", v |-> 0, from |-> l, to |-> NoRangeLimit, values |-> <<>>]
To(l) == [tag |-> "To", v |-> 0, from |-> NoRangeLimit, to |-> l, values |-> <<>>]
Between(f, t) == [tag |-> "Between", v |-> 0, from |-> f, to |-> t, values |-> <<>>]
In(vs) == [tag |-> "In", v |-> 0, from |-> NoRangeLimit, to |-> NoRangeLimit, values |-> vs]

SeqsUpTo(S, n) == UNION {[1..m -> S] : m \in 0..n}

Ranges ==
    {Exact(v) : v \in Vals}
    \cup {From(RangeLimit(v, i)) : v \in Vals, i \in BOOLEAN}
    \cup {To(RangeLimit(v, i)) : v \in Vals, i \in BOOLEAN}
    \cup {Between(RangeLimit(v, i), RangeLimit(v + MaxVal, j)) : v \in Vals, i \in BOOLEAN, j \in BOOLEAN}
    \cup {In(vs) : vs \in SeqsUpTo(Vals, MaxInLen)}

Cmp(mode, value) == [mode |-> mode, value |-> value]

NewFiltersInclusiveIgnored(range) ==
    CASE range.tag = "Exact" -> <<Cmp("EQ", BoxScalar(range.v))>>
      [] range.tag = "From" -> <<Cmp("GTE", BoxScalar(range.from.value))>>
      [] range.tag = "To" -> <<Cmp("LTE", BoxScalar(range.to.value))>>
      [] range.tag = "Between" ->
            <<Cmp("GTE", BoxScalar(range.from.value)), Cmp("LTE", BoxScalar(range.to.value))>>
      [] range.tag = "In" -> <<Cmp("IN", BoxArray(range.values))>>

\* the match of with_filter: a Range becomes one or two comparisons
NewFilters(range) ==
    CASE range.tag = "Exact" -> <<Cmp("EQ", BoxScalar(range.v))>>
      [] range.tag = "From" ->
            <<Cmp(IF range.from.inclusive THEN "GTE" ELSE "GT", BoxScalar(range.from.value))>>
      [] range.tag = "To" ->
            <<Cmp(IF range.to.inclusive THEN "LTE" ELSE "LT", BoxScalar(range.to.value))>>
      [] range.tag = "Between" ->
            <<Cmp(IF range.from.inclusive THEN "GTE" ELSE "GT", BoxScalar(range.from.value)),
              Cmp(IF range.to.inclusive THEN "LTE" ELSE "LT", BoxScalar(range.to.value))>>
      [] range.tag = "In" -> <<Cmp("IN", BoxArray(range.values))>>

\* a with_filter that adds to the column's entry instead of replacing it
FobWithFilterCumulative(b, column, range) ==
    [b EXCEPT !.filters = MapInsert(b.filters, column,
                                    (IF column \in DOMAIN b.filters THEN b.filters[column] ELSE <<>>)
                                    \o NewFilters(range))]

FobNew(table) == [table |-> table, extra |-> "", filters |-> EmptyMap, limit |-> NoLimit]

FobWithFilter(b, column, range) ==
    [b EXCEPT !.filters = MapInsert(b.filters, column, NewFilters(range))]

FobWithExtra(b, extra) == [b EXCEPT !.extra = extra]

----------------------------------------------------------------------------
(* build_where_from_filters *)

\* the nested for loops: every (col, mode, value) in iteration order
RECURSIVE FlattenFilters(_, _)
FlattenFilters(filters, cols) ==
    IF cols = <<>> THEN <<>>
    ELSE [j \in 1..Len(filters[Head(cols)]) |->
             [col |-> Head(cols),
              mode |-> filters[Head(cols)][j].mode,
              value |-> filters[Head(cols)][j].value]]
         \o FlattenFilters(filters, Tail(cols))

NextArgIndexStuck(i) == i

\* i += 1
NextArgIndex(i) == i + 1

RECURSIVE WhereLoop(_, _, _)
WhereLoop(flat, i, started) ==
    IF flat = <<>> THEN [query |-> <<>>, args |-> <<>>]
    ELSE LET f == Head(flat)
             rest == WhereLoop(Tail(flat), NextArgIndex(i), TRUE)
         IN  [query |-> (IF started THEN <<Lit(" AND ")>> ELSE <<>>)
                        \o <<Ident(f.col), Lit(" ")>> \o ModeArg(f.mode, i)
                        \o rest.query,
              args |-> <<f.value>> \o rest.args]

build_where_from_filters(filters, i) ==
    WhereLoop(FlattenFilters(filters, SortedKeys(DOMAIN filters)), i, FALSE)

----------------------------------------------------------------------------
(* FilteredOperationBuilder::build *)

SelectOp(sop, limit) == [kind |-> "Select", op |-> sop, limit |-> limit]
DeleteOp == [kind |-> "Delete", op |-> "None", limit |-> NoLimit]

\* SelectOperation::to_sql
SelectOperationToSql(sop) == IF sop = "Count" THEN "count" ELSE ""

FobBuild(b, fop) ==
    LET w == build_where_from_filters(b.filters, 1)
        head == IF fop.kind = "Select"
                THEN (IF fop.op = "None"
                      THEN <<Lit("SELECT *")>>
                      ELSE <<Lit("SELECT "), Lit(SelectOperationToSql(fop.op)), Lit("(*)")>>)
                ELSE <<Lit("DELETE")>>
        wherePart == IF w.query # <<>> THEN <<Lit(" WHERE ")>> \o w.query ELSE <<>>
        extraPart == IF b.extra # "" THEN <<Lit(" "), Lit(b.extra)>> ELSE <<>>
        tailPart == IF fop.kind = "Delete" THEN <<Lit(" RETURNING *")>>
                    ELSE IF fop.limit.some THEN <<Lit(" LIMIT "), Num(fop.limit.v)>>
                    ELSE <<>>
    IN  [sql |-> head \o <<Lit(" FROM "), Ident(b.table)>> \o wherePart \o extraPart
                 \o tailPart \o <<Lit(";")>>,
         args |-> w.args]

----------------------------------------------------------------------------
(* InsertBuilder *)

InsertBuilderNew(table) == [table |-> table, extra |-> "", values |-> EmptyMap]

InsertWithArg(b, k, v) == [b EXCEPT !.values = MapInsert(b.values, k, BoxScalar(v))]

InsertWithExtra(b, extra) == [b EXCEPT !.extra = extra]

\* the for loop of InsertBuilder::build over values.into_iter().enumerate()
RECURSIVE InsertLoop(_, _, _)
InsertLoop(values, cols, i) ==
    IF cols = <<>> THEN [col_string |-> <<>>, arg_string |-> <<>>, args |-> <<>>]
    ELSE LET arg_index == i + 1
             sep == IF arg_index > 1 THEN <<Lit(", ")>> ELSE <<>>
             rest == InsertLoop(values, Tail(cols), i + 1)
         IN  [col_string |-> sep \o <<Ident(Head(cols))>> \o rest.col_string,
              arg_string |-> sep \o <<Ph(arg_index)>> \o rest.arg_string,
              args |-> <<values[Head(cols)]>> \o rest.args]

InsertBuild(b) ==
    LET l == InsertLoop(b.values, SortedKeys(DOMAIN b.values), 0)
        extraPart == IF b.extra # "" THEN <<Lit(" "), Lit(b.extra)>> ELSE <<>>
    IN  [sql |-> <<Lit("INSERT INTO "), Ident(b.table), Lit(" (")>> \o l.col_string
                 \o <<Lit(") VALUES (")>> \o l.arg_string \o <<Lit(")")>>
                 \o extraPart \o <<Lit(" RETURNING *;")>>,
         args |-> l.args]

----------------------------------------------------------------------------
(* UpdateBuilder *)

\* impl From<FilteredOperationBuilder> for UpdateBuilder
UpdateBuilderFrom(v) == [extra |-> v.extra, filters |-> v, values |-> EmptyMap]

UpdateWithValue(u, column, value) ==
    [u EXCEPT !.values = MapInsert(u.values, column, BoxScalar(value))]

\* UpdateBuilder::with_extra sets the builder's own extra, not filters.extra
UpdateWithExtra(u, extra) == [u EXCEPT !.extra = extra]

\* the for loop of UpdateBuilder::build over self.values
RECURSIVE SetLoop(_, _, _, _)
SetLoop(values, cols, arg_index, first) ==
    IF cols = <<>> THEN [value_string |-> <<>>, values |-> <<>>, arg_index |-> arg_index]
    ELSE LET rest == SetLoop(values, Tail(cols), arg_index + 1, FALSE)
         IN  [value_string |-> <<Lit(IF first THEN "SET " ELSE ", "),
                                 Ident(Head(cols)), Lit(" = "), Ph(arg_index)>>
                               \o rest.value_string,
              values |-> <<values[Head(cols)]>> \o rest.values,
              arg_index |-> rest.arg_index]

WhereStartsAtOne(arg_index) == 1

\* the index the WHERE clause is numbered from: arg_index after the SET loop
WhereStart(arg_index) == arg_index

\* Iterator::chain(values, filters)
ChainArgs(values, filters) == values \o filters

UpdateBuild(u) ==
    IF DOMAIN u.values = {}
    THEN FobBuild(u.filters, SelectOp("None", NoLimit))
    ELSE LET s == SetLoop(u.values, SortedKeys(DOMAIN u.values), 1, TRUE)
             w == build_where_from_filters(u.filters.filters, WhereStart(s.arg_index))
             wherePart == IF w.query # <<>> THEN <<Lit(" WHERE ")>> \o w.query ELSE <<>>
             extraPart == IF u.extra # "" THEN <<Lit(" "), Lit(u.extra)>> ELSE <<>>
         IN  [sql |-> <<Lit("UPDATE "), Ident(u.filters.table), Lit(" ")>> \o s.value_string
                      \o wherePart \o extraPart \o <<Lit(" RETURNING *;")>>,
              args |-> ChainArgs(s.values, w.args)]

----------------------------------------------------------------------------
(* The statement builders as a state machine: SpecStmt *)

NotBuilt == [by |-> "none", sql |-> <<>>, args |-> <<>>]

SelectOps == {SelectOp(o, l) : o \in {"None", "Count"}, l \in {NoLimit, SomeLimit(5)}}

InitStmt ==
    /\ bpc = "new"
    /\ fob = FobNew(TableName)
    /\ ub = UpdateBuilderFrom(FobNew(TableName))
    /\ ib = InsertBuilderNew(TableName)
    /\ built = NotBuilt
    /\ lastFilter = EmptyMap

\* FilteredOperationBuilder::new
FilteredOperationBuilderNew ==
    /\ bpc = "new"
    /\ bpc' = "filtered"
    /\ fob' = FobNew(TableName)
    /\ lastFilter' = EmptyMap
    /\ UNCHANGED <<ub, ib, built>>
    /\ UNCHANGED nonStmtVars

\* FilteredOperationBuilder::with_filter
WithFilter ==
    /\ bpc = "filtered"
    /\ \E column \in FilterColumns, range \in Ranges :
          /\ fob' = FobWithFilter(fob, column, range)
          /\ lastFilter' = MapInsert(lastFilter, column,
                                     [range |-> range,
                                      replaced |-> /\ column \in DOMAIN lastFilter
                                                   /\ lastFilter[column].range # range])
    /\ UNCHANGED <<bpc, ub, ib, built>>
    /\ UNCHANGED nonStmtVars

\* FilteredOperationBuilder::with_extra
WithExtra ==
    /\ bpc = "filtered"
    /\ \E extra \in Extras : fob' = FobWithExtra(fob, extra)
    /\ UNCHANGED <<bpc, ub, ib, built, lastFilter>>
    /\ UNCHANGED nonStmtVars

\* FilteredOperationBuilder::build
Build ==
    /\ bpc = "filtered"
    /\ \E fop \in SelectOps \cup {DeleteOp} :
          LET r == FobBuild(fob, fop)
          IN  built' = [by |-> fop.kind, sql |-> r.sql, args |-> r.args]
    /\ bpc' = "built"
    /\ UNCHANGED <<fob, ub, ib, lastFilter>>
    /\ UNCHANGED nonStmtVars

\* UpdateBuilder::from(FilteredOperationBuilder)
IntoUpdateBuilder ==
    /\ bpc = "filtered"
    /\ bpc' = "update"
    /\ ub' = UpdateBuilderFrom(fob)
    /\ UNCHANGED <<fob, ib, built, lastFilter>>
    /\ UNCHANGED nonStmtVars

\* UpdateBuilder::with_value
WithValue ==
    /\ bpc = "update"
    /\ \E column \in ValueColumns, value \in Vals :
          ub' = UpdateWithValue(ub, column, value + 2 * MaxVal)
    /\ UNCHANGED <<bpc, fob, ib, built, lastFilter>>
    /\ UNCHANGED nonStmtVars

\* UpdateBuilder::with_extra
UpdateBuilderWithExtra ==
    /\ bpc = "update"
    /\ \E extra \in Extras : ub' = UpdateWithExtra(ub, extra)
    /\ UNCHANGED <<bpc, fob, ib, built, lastFilter>>
    /\ UNCHANGED nonStmtVars

\* UpdateBuilder::build
UpdateBuilderBuild ==
    /\ bpc = "update"
    /\ LET r == UpdateBuild(ub)
       IN  built' = [by |-> "Update", sql |-> r.sql, args |-> r.args]
    /\ bpc' = "built"
    /\ UNCHANGED <<fob, ub, ib, lastFilter>>
    /\ UNCHANGED nonStmtVars

\* InsertBuilder::new
InsertBuilderNewAction ==
    /\ bpc = "new"
    /\ bpc' = "insert"
    /\ ib' = InsertBuilderNew(TableName)
    /\ UNCHANGED <<fob, ub, built, lastFilter>>
    /\ UNCHANGED nonStmtVars

\* InsertBuilder::with_arg
WithArg ==
    /\ bpc = "insert"
    /\ \E k \in InsertColumns, v \in Vals : ib' = InsertWithArg(ib, k, v)
    /\ UNCHANGED <<bpc, fob, ub, built, lastFilter>>
    /\ UNCHANGED nonStmtVars

\* InsertBuilder::with_extra
InsertBuilderWithExtra ==
    /\ bpc = "insert"
    /\ \E extra \in Extras : ib' = InsertWithExtra(ib, extra)
    /\ UNCHANGED <<bpc, fob, ub, built, lastFilter>>
    /\ UNCHANGED nonStmtVars

\* InsertBuilder::build
InsertBuilderBuild ==
    /\ bpc = "insert"
    /\ LET r == InsertBuild(ib)
       IN  built' = [by |-> "Insert", sql |-> r.sql, args |-> r.args]
    /\ bpc' = "built"
    /\ UNCHANGED <<fob, ub, ib, lastFilter>>
    /\ UNCHANGED nonStmtVars

NextStmt ==
    \/ FilteredOperationBuilderNew
    \/ WithFilter
    \/ WithExtra
    \/ Build
    \/ IntoUpdateBuilder
    \/ WithValue
    \/ UpdateBuilderWithExtra
    \/ UpdateBuilderBuild
    \/ InsertBuilderNewAction
    \/ WithArg
    \/ InsertBuilderWithExtra
    \/ InsertBuilderBuild


----------------------------------------------------------------------------
(* Reading a built statement back: placeholders and what they stand for *)

Positions(sql, kind) ==
    SelectSeq([p \in 1..Len(sql) |-> p], LAMBDA p : sql[p].k = kind)

\* the identifier a placeholder belongs to: the nearest one before it
IdentBefore(sql, p) ==
    LET q == CHOOSE q \in 1..(p - 1) :
                 /\ sql[q].k = "ident"
                 /\ \A r \in (q + 1)..(p - 1) : sql[r].k # "ident"
    IN  q

\* "col = $n" is the SET form; "col OP $n" and "col = any($n)" are WHERE forms
IsSetPlaceholder(sql, p) == p > 1 /\ sql[p - 1] = Lit(" = ")

SymbolMode(s) ==
    CASE s = "<" -> "LT"
      [] s = "<=" -> "LTE"
      [] s = "=" -> "EQ"
      [] s = ">=" -> "GTE"
      [] s = ">" -> "GT"
      [] s = "= any(" -> "IN"
      [] OTHER -> "none"

\* the value a WHERE placeholder at position p must bind, read off the text
BindsFilterValue(sql, p, filters, arg) ==
    LET q == IdentBefore(sql, p)
        col == sql[q].c
        mode == SymbolMode(sql[q + 2].s)
    IN  /\ col \in DOMAIN filters
        /\ \E j \in 1..Len(filters[col]) :
              filters[col][j].mode = mode /\ filters[col][j].value = arg

BuiltFilters == IF built.by = "Update" THEN ub.filters.filters ELSE fob.filters

CountComparisons(filters) ==
    Cardinality(UNION {{<<c, j>> : j \in 1..Len(filters[c])} : c \in DOMAIN filters})

\* C8: in every built statement the bound arguments are as many as the $n
\* placeholders, the placeholders read $1, $2, ..., $N in order of appearance,
\* and the k-th argument is the value of the column (and comparison) that
\* placeholder $k stands for.
C8_PlaceholdersMatchArgs ==
    bpc = "built" =>
        LET sql == built.sql
            args == built.args
            ph == Positions(sql, "ph")
            idents == Positions(sql, "ident")
        IN  /\ Len(ph) = Len(args)
            /\ \A i \in 1..Len(ph) : sql[ph[i]].n = i
            /\ \A i \in 1..Len(ph) :
                  IF built.by = "Insert"
                  THEN /\ Len(idents) = Len(ph) + 1
                       /\ sql[idents[i + 1]].c \in DOMAIN ib.values
                       /\ args[i] = ib.values[sql[idents[i + 1]].c]
                  ELSE IF IsSetPlaceholder(sql, ph[i])
                  THEN /\ built.by = "Update"
                       /\ sql[ph[i] - 2].k = "ident"
                       /\ sql[ph[i] - 2].c \in DOMAIN ub.values
                       /\ args[i] = ub.values[sql[ph[i] - 2].c]
                  ELSE BindsFilterValue(sql, ph[i], BuiltFilters, args[i])

C8_Witness ==
    /\ bpc = "built"
    /\ built.by = "Update"
    /\ Cardinality(DOMAIN ub.values) = 2
    /\ CountComparisons(ub.filters.filters) = 3
    /\ \E c \in DOMAIN ub.filters.filters : ub.filters.filters[c][1].mode = "IN"

\* C9: an UPDATE with k >= 1 SET values and m filter comparisons numbers the
\* SET columns $1..$k in column-name order and the WHERE comparisons
\* $k+1..$k+m, and its arguments are the k SET values followed by the m
\* filter values in the order of the WHERE clause.
C9_SetBeforeWhere ==
    (bpc = "built" /\ built.by = "Update" /\ DOMAIN ub.values # {}) =>
        LET sql == built.sql
            args == built.args
            ph == Positions(sql, "ph")
            setPh == SelectSeq(ph, LAMBDA p : IsSetPlaceholder(sql, p))
            wherePh == SelectSeq(ph, LAMBDA p : ~IsSetPlaceholder(sql, p))
            k == Cardinality(DOMAIN ub.values)
            m == CountComparisons(ub.filters.filters)
        IN  /\ Len(setPh) = k
            /\ Len(wherePh) = m
            /\ Len(args) = k + m
            /\ \A i \in 1..k :
                  /\ sql[setPh[i]].n = i
                  /\ args[i] = ub.values[sql[setPh[i] - 2].c]
            /\ \A i \in 1..k : \A j \in 1..k :
                  i < j => StrLess(sql[setPh[i] - 2].c, sql[setPh[j] - 2].c)
            /\ \A i \in 1..m :
                  /\ sql[wherePh[i]].n = k + i
                  /\ BindsFilterValue(sql, wherePh[i], ub.filters.filters, args[k + i])

C9_Witness ==
    /\ bpc = "built"
    /\ built.by = "Update"
    /\ DOMAIN ub.values = ValueColumns
    /\ DOMAIN ub.filters.filters = FilterColumns
    /\ Len(built.args) = 5

\* the plain select over an UpdateBuilder's table, filters and extra
PlainSelectOf(u) ==
    FobBuild(FobWithExtra([FobNew(u.filters.table) EXCEPT !.filters = u.filters.filters],
                          u.extra),
             SelectOp("None", NoLimit))

\* C10: an UpdateBuilder on which no value was set builds exactly what the
\* plain select (op None, limit None) over the same table, filters and extra
\* builds, and the statement is a SELECT, never an UPDATE.
C10_DegradesToPlainSelect ==
    (bpc = "built" /\ built.by = "Update" /\ DOMAIN ub.values = {}) =>
        /\ built.sql = PlainSelectOf(ub).sql
        /\ built.args = PlainSelectOf(ub).args
        /\ Head(built.sql) = Lit("SELECT *")

\* the column the i-th placeholder of a built statement is compared with
ColumnOfPlaceholder(sql, ph, i) == sql[IdentBefore(sql, ph[i])].c

\* how many placeholders up to the i-th belong to the same column
RankInColumn(sql, ph, i) ==
    Cardinality({h \in 1..i : ColumnOfPlaceholder(sql, ph, h) = ColumnOfPlaceholder(sql, ph, i)})

\* filters a = 3 and b in (25, 125], given in either call order
ExampleFilters ==
    {FobWithFilter(FobWithFilter(FobNew(TableName), NameA, Exact(3)),
                   NameB, Between(RangeLimit(25, FALSE), RangeLimit(125, TRUE))),
     FobWithFilter(FobWithFilter(FobNew(TableName),
                                 NameB, Between(RangeLimit(25, FALSE), RangeLimit(125, TRUE))),
                   NameA, Exact(3))}

\* "SELECT count(*) FROM t WHERE a = $1 AND b > $2 AND b <= $3 LIMIT 5;"
ExampleText ==
    <<Lit("SELECT "), Lit("count"), Lit("(*)"), Lit(" FROM "), Ident(TableName),
      Lit(" WHERE "), Ident(NameA), Lit(" "), Lit("="), Lit(" "), Ph(1),
      Lit(" AND "), Ident(NameB), Lit(" "), Lit(">"), Lit(" "), Ph(2),
      Lit(" AND "), Ident(NameB), Lit(" "), Lit("<="), Lit(" "), Ph(3),
      Lit(" LIMIT "), Num(5), Lit(";")>>

\* C11: FilteredOperationBuilder::build renders the WHERE comparisons in
\* lexicographic order of column name, whatever order the with_filter calls
\* were made in, and within one column in the order the range produced them
\* (lower bound before upper bound); filters a = 3 and b in (25, 125] with
\* Count and limit 5 give exactly the text above with arguments [3, 25, 125].
C11_WhereInColumnOrder ==
    /\ (bpc = "built" /\ built.by \in {"Select", "Delete"}) =>
          LET sql == built.sql
              ph == Positions(sql, "ph")
          IN  /\ Len(ph) = CountComparisons(fob.filters)
              /\ \A i \in 1..Len(ph) : \A j \in 1..Len(ph) :
                    i < j => \/ ColumnOfPlaceholder(sql, ph, i) = ColumnOfPlaceholder(sql, ph, j)
                             \/ StrLess(ColumnOfPlaceholder(sql, ph, i),
                                        ColumnOfPlaceholder(sql, ph, j))
              /\ \A i \in 1..Len(ph) :
                    LET col == ColumnOfPlaceholder(sql, ph, i)
                        r == RankInColumn(sql, ph, i)
                        q == IdentBefore(sql, ph[i])
                    IN  /\ col \in DOMAIN fob.filters
                        /\ r <= Len(fob.filters[col])
                        /\ SymbolMode(sql[q + 2].s) = fob.filters[col][r].mode
                        /\ built.args[i] = fob.filters[col][r].value
    /\ \A b \in ExampleFilters :
          /\ FobBuild(b, SelectOp("Count", SomeLimit(5))).sql = ExampleText
          /\ FobBuild(b, SelectOp("Count", SomeLimit(5))).args
                = <<BoxScalar(3), BoxScalar(25), BoxScalar(125)>>

C11_Witness ==
    /\ bpc = "built"
    /\ built.by = "Select"
    /\ DOMAIN fob.filters = FilterColumns
    /\ Len(fob.filters[NameA]) = 2
    /\ fob.filters[NameA][1].mode = "GT"
    /\ fob.filters[NameA][2].mode = "LTE"
    /\ fob.filters[NameAB][1].mode = "IN"
    /\ Len(built.args) = 3
    /\ built.args[3].arr

----------------------------------------------------------------------------
(* Bounds of the pool and repository model *)

\* connections held by the underlying pool
PoolSize == 2
\* operations one unit of work chains
MaxOps == 2
\* rows a statement returns
MaxRows == 2

Conns == 1..PoolSize

----------------------------------------------------------------------------
(* Results, errors, connections *)

NoError == [root |-> "none", extra |-> 0, ctx |-> <<>>]
Error(root) == [root |-> root, extra |-> 0, ctx |-> <<>>]

\* failure: e.context(msg) wraps e, the root cause stays underneath
WithContext(e, msg) == [e EXCEPT !.ctx = Append(@, msg)]

NoValue == [single |-> FALSE, items |-> <<>>]
Many(items) == [single |-> FALSE, items |-> items]
One(item) == [single |-> TRUE, items |-> <<item>>]

Pending == [state |-> "pending", v |-> NoValue, e |-> NoError]
Ok(v) == [state |-> "ok", v |-> v, e |-> NoError]
Err(e) == [state |-> "err", v |-> NoValue, e |-> e]

Conn(id, kind, holder) == [id |-> id, kind |-> kind, holder |-> holder]
NoConn == Conn(0, "None", "none")

Count(log, what) == Len(SelectSeq(log, LAMBDA c : c = what))

----------------------------------------------------------------------------
(* AclEngine *)

Engines == {"SystemACL", "ForbiddenACL", "SyncACLFn"}

VerdictsForbiddenAllows(engine) ==
    CASE engine = "SystemACL" -> {"allow"}
      [] engine = "ForbiddenACL" -> {"allow"}
      [] OTHER -> {"allow", "deny", "error"}

\* allows(): SystemACL yields true, ForbiddenACL false, a SyncACLFn whatever
\* its function returns, Ok(true), Ok(false) or Err(e)
Verdicts(engine) ==
    CASE engine = "SystemACL" -> {"allow"}
      [] engine = "ForbiddenACL" -> {"deny"}
      [] OTHER -> {"allow", "deny", "error"}

EnsureAccessIgnoresVerdict(verdict) ==
    IF verdict = "error" THEN Err(Error("AclError")) ELSE Ok(NoValue)

\* AclEngine::ensure_access
EnsureAccess(verdict) ==
    CASE verdict = "allow" -> Ok(NoValue)
      [] verdict = "deny" -> Err(Error("Unauthorized"))
      [] verdict = "error" -> Err(Error("AclError"))

----------------------------------------------------------------------------
(* The roles repository: check_acl and make_repo *)

\* RepoLogin: Anonymous, a User none of whose roles is a superuser role, a
\* User with a superuser role
Logins == {"Anonymous", "User", "Superuser"}

\* check_acl; own: caller_id == entry.user_id
check_acl(login, action, own) ==
    CASE login = "Anonymous" -> FALSE
      [] login = "Superuser" -> TRUE
      [] login = "User" -> action = "Select" /\ own

\* make_repo(login): make_su_repo() with the afterop engine
\* InfallibleSyncACLFn(check_acl(login, ctx)); named by its login
RolesEngines == Logins

\* the verdicts the afterop engine of an operation can give for the context
\* (entity, action) of its i-th check
AfteropVerdicts(o, i) ==
    IF o.after \in RolesEngines
    THEN {IF check_acl(o.after, o.ctxs[i][2], own) THEN "allow" ELSE "deny" : own \in BOOLEAN}
    ELSE Verdicts(o.after)

----------------------------------------------------------------------------
(* DbRepoImpl: payloads, query_debug, the cardinality helpers *)

Kinds == {"insert", "select", "update", "delete"}
Limits == {NoLimit, SomeLimit(-1), SomeLimit(0), SomeLimit(1)}

LimitRejectedBelowZero(limit) == limit.some /\ limit.v < 0

\* select_full: if let Some(limit) = limit { if limit < 1 { return err } }
LimitRejected(limit) == limit.some /\ limit.v < 1

LimitErrorWinsOverAcl(access, o) == o.kind = "select" /\ LimitRejected(o.limit)

\* select_full: the limit is validated in the Ok arm of the match on the
\* pre-operation check's result
LimitErrorWins(access, o) ==
    access.state = "ok" /\ o.kind = "select" /\ LimitRejected(o.limit)

PayloadFilter == FobWithFilter(FobNew(TableName), NameA, Exact(1))

\* into_insert_builder / into_filtered_operation_builder / into_update_builder
\* followed by build, as each operation calls them
BuildQuery(o) ==
    CASE o.kind = "insert" ->
            InsertBuild(InsertWithArg(InsertBuilderNew(TableName), NameA, 1))
      [] o.kind = "select" -> FobBuild(PayloadFilter, SelectOp("None", o.limit))
      [] o.kind = "update" ->
            UpdateBuild(IF o.hasValues
                        THEN UpdateWithValue(UpdateBuilderFrom(PayloadFilter), NameB, 2)
                        ELSE UpdateBuilderFrom(PayloadFilter))
      [] o.kind = "delete" -> FobBuild(PayloadFilter, DeleteOp)

\* {:?} of a bound argument
RECURSIVE DebugItems(_, _)
DebugItems(items, i) ==
    IF i > Len(items) THEN <<>>
    ELSE (IF i > 1 THEN <<Lit(", ")>> ELSE <<>>) \o <<Num(items[i])>> \o DebugItems(items, i + 1)

DebugArg(arg) ==
    IF arg.arr THEN <<Lit("[")>> \o DebugItems(arg.items, 1) \o <<Lit("]")>>
    ELSE <<Num(arg.items[1])>>

RECURSIVE ArgsDebug(_, _)
ArgsDebug(args, i) ==
    IF i >= Len(args) THEN <<>>
    ELSE (IF i > 0 THEN <<Lit(", ")>> ELSE <<>>)
         \o <<Ph(i + 1), Lit(" = ")>> \o DebugArg(args[i + 1])
         \o ArgsDebug(args, i + 1)

query_debug(q, args) ==
    <<Lit("Query: ")>> \o q \o <<Lit(". Args: ")>> \o ArgsDebug(args, 0)

StageLabel(kind) ==
    CASE kind = "insert" -> <<Lit("Failure while running insert")>>
      [] kind = "select" -> <<Lit("Failure while running select")>>
      [] kind = "update" -> <<Lit("Failure while running update")>>
      [] kind = "delete" -> <<Lit("Failure while running delete")>>

ExactlyOneTakesFirst(bulk) ==
    IF bulk.state # "ok" THEN bulk
    ELSE LET n == Len(bulk.v.items)
         IN  IF n = 0 THEN Err(Error("NoData"))
             ELSE Ok(One(bulk.v.items[1]))

ExactlyOneExtraIsCount(bulk) ==
    IF bulk.state # "ok" THEN bulk
    ELSE LET n == Len(bulk.v.items)
         IN  IF n > 1 THEN Err([Error("ExtraData") EXCEPT !.extra = n])
             ELSE IF n = 0 THEN Err(Error("NoData"))
             ELSE Ok(One(bulk.v.items[1]))

\* insert_exactly_one, select_exactly_one, update_exactly_one, delete_exactly_one
\* (data.len() as u32 is data.len() for every length below 2^32)
ExactlyOne(bulk) ==
    IF bulk.state # "ok" THEN bulk
    ELSE LET n == Len(bulk.v.items)
         IN  IF n > 1 THEN Err([Error("ExtraData") EXCEPT !.extra = n - 1])
             ELSE IF n = 0 THEN Err(Error("NoData"))
             ELSE Ok(One(bulk.v.items[n]))

NoOp ==
    [kind |-> "none", exactlyOne |-> FALSE, pre |-> "SystemACL", after |-> "SystemACL",
     limit |-> NoLimit, hasValues |-> FALSE,
     pc |-> "none", at |-> "none", given |-> 0, callsBefore |-> 0,
     query |-> [sql |-> <<>>, args |-> <<>>], rows |-> <<>>, checks |-> <<>>,
     ctxs |-> <<>>, trace |-> <<>>, bulk |-> Pending, res |-> Pending, resConn |-> 0]

ReturnedConnLostOnError(outcome, c) == IF outcome.state = "err" THEN 0 ELSE c.id

\* every arm pairs its outcome with conn: Ok((.., conn)) and Err((e, conn))
ReturnedConn(outcome, c) == c.id

\* the operation resolves: the trailing map_err labels an error with the stage,
\* the _exactly_one helper then checks the cardinality of a success
OpResolves(o, outcome, at) ==
    LET bulk == IF outcome.state = "err"
                THEN Err(WithContext(outcome.e, StageLabel(o.kind)))
                ELSE outcome
    IN  /\ op' = [o EXCEPT !.pc = "resolved", !.at = at, !.bulk = bulk,
                           !.res = IF o.exactlyOne THEN ExactlyOne(bulk) ELSE bulk,
                           !.resConn = ReturnedConn(outcome, conn)]
        /\ conn' = [conn EXCEPT !.holder = "unit"]

ActionOfStatement(o) ==
    CASE o.kind = "insert" -> "Insert"
      [] o.kind = "select" -> "Select"
      [] o.kind = "update" -> IF o.hasValues THEN "Update" ELSE "Select"
      [] o.kind = "delete" -> "Delete"

\* the Action each operation passes to bulk_ensure_access
ActionOf(o) ==
    CASE o.kind = "insert" -> "Insert"
      [] o.kind = "select" -> "Select"
      [] o.kind = "update" -> "Update"
      [] o.kind = "delete" -> "Delete"

\* the steps of an operation as they start and resolve
Traced(o, step, ok) ==
    [o EXCEPT !.trace = Append(@, <<step, IF ok THEN "ok" ELSE "err">>)]

NextStepKeepsGoing(step, ok) ==
    CASE step = "acl" -> "prepare"
      [] step = "prepare" -> "query"
      [] step = "query" -> "afterop"

NextStepRetries(step, ok) ==
    IF ~ok THEN (IF step = "acl" THEN "resolved" ELSE step)
    ELSE CASE step = "acl" -> "prepare"
           [] step = "prepare" -> "query"
           [] step = "query" -> "afterop"

\* the combinator chain of an operation: then, and_then(prepare2),
\* and_then(query2), map, and_then(bulk_ensure_access), map_err.  An Err
\* skips every and_then that follows; an Ok runs the next one
NextStep(step, ok) ==
    IF ~ok THEN "resolved"
    ELSE CASE step = "acl" -> "prepare"
           [] step = "prepare" -> "query"
           [] step = "query" -> "afterop"

\* the closure of the next combinator runs: prepare2 and query2 give the
\* connection to the driver, bulk_ensure_access starts one check per entity
StartStep(o, step) ==
    LET started == [o EXCEPT !.trace = Append(@, <<step, "start">>), !.pc = step]
    IN  CASE step = "prepare" ->
               /\ op' = [started EXCEPT !.query = BuildQuery(o)]
               /\ calls' = Append(calls, "prepare")
               /\ conn' = [conn EXCEPT !.holder = "driver"]
          [] step = "query" ->
               /\ op' = started
               /\ calls' = Append(calls, "query")
               /\ conn' = [conn EXCEPT !.holder = "driver"]
          [] step = "afterop" ->
               /\ op' = [started EXCEPT
                             !.ctxs = [i \in 1..Len(o.rows) |-> <<o.rows[i], ActionOf(o)>>],
                             !.checks = [i \in 1..Len(o.rows) |-> "pending"]]
               /\ conn' = [conn EXCEPT !.holder = "closure"]
               /\ UNCHANGED calls

JoinAllReadyOnFirst(checks) ==
    Len(checks) = 0 \/ \E i \in 1..Len(checks) : checks[i] = "allowed"

\* join_all is ready with Ok once every element is Done
JoinAllReady(checks) == \A i \in 1..Len(checks) : checks[i] = "allowed"

\* join_all collects the Done elements in the order of the input; an element
\* still pending has no entity to give
RECURSIVE JoinAllItems(_, _, _)
JoinAllItems(rows, checks, i) ==
    IF i > Len(rows) THEN <<>>
    ELSE (IF checks[i] = "allowed" THEN <<rows[i]>> ELSE <<>>)
         \o JoinAllItems(rows, checks, i + 1)

----------------------------------------------------------------------------
(* Connection: commit2, rollback2, unwrap_tokio_postgres *)

TransactionFinishKeepsTransaction(ok) == "Transaction"

TransactionFinishKeepsTransactionOnError(ok) == IF ok THEN "Plain" ELSE "Transaction"

\* Transaction::commit2 / rollback2: the driver hands back the plain
\* connection with the success and with the error
TransactionFinish(ok) == "Plain"

CommitOutcomeKeepsValue(ok, v) == Ok(v)

\* commit2().map(move |(_, conn)| (v, conn)): the value of the unit on
\* success, the error of the commit otherwise
CommitOutcome(ok, v) == IF ok THEN Ok(v) ELSE Err(Error("CommitError"))

ThenBranchAlwaysCommit(res) == "commit"

\* the match of Pool::run's then closure
ThenBranch(res) == IF res.state = "ok" THEN "commit" ELSE "rollback"

\* map / map_err with unwrap_tokio_postgres, then the check-in at the
\* underlying pool; unwrapping a Transaction is unreachable!()
Finish(result, c) ==
    IF c.kind = "Plain"
    THEN /\ pc' = "done"
         /\ runRes' = result
         /\ idle' = idle \cup {c.id}
         /\ conn' = Conn(c.id, "Plain", "bb8")
    ELSE /\ pc' = "panicked"
         /\ runRes' = Pending
         /\ idle' = idle
         /\ conn' = Conn(c.id, c.kind, "lost")

\* the unit of work resolved to res: commit2 on Ok, rollback2 on Err; on a
\* plain connection both are future::ok and nothing is sent
PoolThen(res) ==
    LET branch == ThenBranch(res)
    IN  /\ unit' = [unit EXCEPT !.res = res]
        /\ IF conn.kind = "Transaction"
           THEN /\ calls' = Append(calls, IF branch = "commit" THEN "COMMIT" ELSE "ROLLBACK")
                /\ pc' = IF branch = "commit" THEN "committing" ELSE "rollingback"
                /\ conn' = [conn EXCEPT !.holder = "driver"]
                /\ UNCHANGED <<idle, runRes>>
           ELSE /\ Finish(IF branch = "commit" THEN Ok(res.v) ELSE Err(res.e), conn)
                /\ calls' = Append(calls, IF branch = "commit" THEN "commit2 on plain"
                                                                ELSE "rollback2 on plain")

----------------------------------------------------------------------------
(* Pool::run with a unit of work of DbRepoImpl operations: Spec *)

InitPool ==
    /\ pc = "idle"
    /\ idle = Conns
    /\ conn = NoConn
    /\ calls = <<>>
    /\ op = NoOp
    /\ unit = [n |-> 0, own |-> "none", res |-> Pending, ended |-> "none"]
    /\ runRes = Pending

\* Pool::run: the underlying pool hands out a connection, conn.transaction() is sent
PoolRun ==
    /\ pc = "idle"
    /\ \E id \in idle :
          /\ idle' = idle \ {id}
          /\ conn' = Conn(id, "Plain", "driver")
    /\ calls' = <<"BEGIN">>
    /\ pc' = "opening"
    /\ UNCHANGED <<op, unit, runRes>>
    /\ UNCHANGED nonPoolVars

\* the transaction is open: f(Box::new(t)) is called
TransactionOpened ==
    /\ pc = "opening"
    /\ pc' = "unit"
    /\ conn' = Conn(conn.id, "Transaction", "unit")
    /\ UNCHANGED <<idle, calls, op, unit, runRes>>
    /\ UNCHANGED nonPoolVars

\* conn.transaction() failed: (E::from(e), conn) goes back to the underlying pool
TransactionFailed ==
    /\ pc = "opening"
    /\ pc' = "done"
    /\ runRes' = Err(Error("BeginError"))
    /\ idle' = idle \cup {conn.id}
    /\ conn' = Conn(conn.id, "Plain", "bb8")
    /\ UNCHANGED <<calls, op, unit>>
    /\ UNCHANGED nonPoolVars

\* the unit of work calls insert, select_full, update, delete or an
\* _exactly_one helper: the pre-operation ensure_access starts, conn is
\* moved into the continuation.  A roles repository has the engines
\* make_repo gives it, and its DummyRoleUpdater makes update unreachable!()
StartOp ==
    /\ pc = "unit"
    /\ conn.holder = "unit"
    /\ op.pc = "none" \/ (op.pc = "resolved" /\ op.res.state = "ok")
    /\ unit.n < MaxOps
    /\ \E kind \in Kinds, one \in BOOLEAN, pre \in Engines, after \in Engines \cup RolesEngines,
          limit \in Limits, hasValues \in BOOLEAN :
          /\ after \in RolesEngines => (pre = "SystemACL" /\ kind # "update")
          /\ (limit # NoLimit) => (kind = "select" /\ ~one)
          /\ hasValues => kind = "update"
          /\ op' = [NoOp EXCEPT !.kind = kind, !.exactlyOne = one, !.pre = pre,
                                !.after = after, !.limit = limit, !.hasValues = hasValues,
                                !.pc = "acl", !.given = conn.id,
                                !.trace = << <<"acl", "start">> >>,
                                !.callsBefore = Len(calls)]
    /\ conn' = [conn EXCEPT !.holder = "closure"]
    /\ unit' = [unit EXCEPT !.n = @ + 1]
    /\ UNCHANGED <<pc, idle, calls, runRes>>
    /\ UNCHANGED nonPoolVars

\* the pre-operation check resolved: on Ok the limit is validated (select_full),
\* the statement is built and prepare2 is sent; on Err the operation fails
PreAclResolved ==
    /\ pc = "unit"
    /\ op.pc = "acl"
    /\ \E verdict \in Verdicts(op.pre) :
          LET access == EnsureAccess(verdict)
              checked == Traced(op, "acl", access.state = "ok")
          IN  IF LimitErrorWins(access, op)
              THEN /\ OpResolves(Traced(checked, "limit", FALSE),
                                     Err(Error("LimitError")), "limit")
                   /\ UNCHANGED calls
              ELSE LET next == NextStep("acl", access.state = "ok")
                   IN  IF next = "resolved"
                       THEN OpResolves(checked, access, "acl") /\ UNCHANGED calls
                       ELSE StartStep(checked, next)
    /\ UNCHANGED <<pc, idle, unit, runRes>>
    /\ UNCHANGED nonPoolVars

\* prepare2 resolved: query2 is sent, or the operation fails with the driver's error
PrepareResolved ==
    /\ pc = "unit"
    /\ op.pc = "prepare"
    /\ \E ok \in BOOLEAN :
          LET next == NextStep("prepare", ok)
          IN  IF next = "resolved"
              THEN /\ OpResolves(Traced(op, "prepare", ok), Err(Error("DbError")), "prepare")
                   /\ UNCHANGED calls
              ELSE StartStep(Traced(op, "prepare", ok), next)
    /\ UNCHANGED <<pc, idle, unit, runRes>>
    /\ UNCHANGED nonPoolVars

\* query2(..).collect() resolved: the rows become entities and
\* bulk_ensure_access starts one check per entity; a failure carries query_debug
QueryResolved ==
    /\ pc = "unit"
    /\ op.pc = "query"
    /\ \E ok \in BOOLEAN, n \in 0..MaxRows :
          /\ ~ok => n = 0
          /\ LET collected == Traced([op EXCEPT !.rows = [i \in 1..n |-> i]], "query", ok)
                 next == NextStep("query", ok)
             IN  IF next = "resolved"
                 THEN /\ OpResolves(collected,
                                        Err(WithContext(Error("DbError"),
                                                        query_debug(op.query.sql, op.query.args))),
                                        "query")
                      /\ UNCHANGED calls
                 ELSE StartStep(collected, next)
    /\ UNCHANGED <<pc, idle, unit, runRes>>
    /\ UNCHANGED nonPoolVars

\* one check of join_all resolved: an Err ends the whole batch at once
AfteropCheckResolved ==
    /\ pc = "unit"
    /\ op.pc = "afterop"
    /\ \E i \in 1..Len(op.checks) :
        \E verdict \in AfteropVerdicts(op, i) :
          /\ op.checks[i] = "pending"
          /\ LET access == EnsureAccess(verdict)
             IN  IF access.state = "err"
                 THEN OpResolves(Traced([op EXCEPT !.checks[i] = verdict], "afterop", FALSE),
                                     access, "afterop")
                 ELSE /\ op' = [op EXCEPT !.checks[i] = "allowed"]
                      /\ UNCHANGED conn
    /\ UNCHANGED <<pc, idle, calls, unit, runRes>>
    /\ UNCHANGED nonPoolVars

\* join_all resolved Ok: every entity passed, in the order of the rows
AfteropJoined ==
    /\ pc = "unit"
    /\ op.pc = "afterop"
    /\ JoinAllReady(op.checks)
    /\ OpResolves(Traced(op, "afterop", TRUE),
                      Ok(Many(JoinAllItems(op.rows, op.checks, 1))), "joined")
    /\ UNCHANGED <<pc, idle, calls, unit, runRes>>
    /\ UNCHANGED nonPoolVars

\* the unit of work resolves Ok with the value of its last operation
UnitOk ==
    /\ pc = "unit"
    /\ conn.holder = "unit"
    /\ op.pc = "none" \/ (op.pc = "resolved" /\ op.res.state = "ok")
    /\ PoolThen(Ok(op.res.v))
    /\ UNCHANGED op
    /\ UNCHANGED nonPoolVars

\* the unit of work resolves Err: with the error of the operation that
\* failed, or with an error of its own
UnitErr ==
    /\ pc = "unit"
    /\ conn.holder = "unit"
    /\ op.pc \in {"none", "resolved"}
    /\ PoolThen(IF op.res.state = "err" THEN Err(op.res.e) ELSE Err(Error("UnitError")))
    /\ UNCHANGED op
    /\ UNCHANGED nonPoolVars

\* the unit of work calls commit2 or rollback2 on the transaction itself
UnitEndsTransaction ==
    /\ pc = "unit"
    /\ conn.holder = "unit"
    /\ conn.kind = "Transaction"
    /\ op.pc \in {"none", "resolved"}
    /\ unit.own = "none"
    /\ \E commit \in BOOLEAN :
          calls' = Append(calls, IF commit THEN "COMMIT by unit" ELSE "ROLLBACK by unit")
    /\ conn' = [conn EXCEPT !.holder = "driver"]
    /\ unit' = [unit EXCEPT !.own = "sent"]
    /\ UNCHANGED <<pc, idle, op, runRes>>
    /\ UNCHANGED nonPoolVars

\* the unit's own commit2 or rollback2 resolved: the unit has what the
\* driver handed back
UnitEndResolved ==
    /\ pc = "unit"
    /\ unit.own = "sent"
    /\ \E ok \in BOOLEAN : conn' = Conn(conn.id, TransactionFinish(ok), "unit")
    /\ unit' = [unit EXCEPT !.own = "done"]
    /\ UNCHANGED <<pc, idle, calls, op, runRes>>
    /\ UNCHANGED nonPoolVars

\* commit2 resolved
CommitResolved ==
    /\ pc = "committing"
    /\ \E ok \in BOOLEAN :
          /\ Finish(CommitOutcome(ok, unit.res.v), Conn(conn.id, TransactionFinish(ok), "run"))
          /\ unit' = [unit EXCEPT !.ended = IF ok THEN "ok" ELSE "failed"]
    /\ UNCHANGED <<calls, op>>
    /\ UNCHANGED nonPoolVars

\* rollback2 resolved: and_then gives the unit's error back only on success
RollbackResolved ==
    /\ pc = "rollingback"
    /\ \E ok \in BOOLEAN :
          /\ Finish(IF ok THEN Err(unit.res.e) ELSE Err(Error("RollbackError")),
                    Conn(conn.id, TransactionFinish(ok), "run"))
          /\ unit' = [unit EXCEPT !.ended = IF ok THEN "ok" ELSE "failed"]
    /\ UNCHANGED <<calls, op>>
    /\ UNCHANGED nonPoolVars

\* the caller drops the future Pool::run returned before it resolved: the
\* closures that have not run yet never run, and the connection, owned by
\* whichever step holds it, is dropped with the future
FutureDropped ==
    /\ pc \in {"opening", "unit", "committing", "rollingback"}
    /\ pc' = "dropped"
    /\ conn' = [conn EXCEPT !.holder = "dropped"]
    /\ UNCHANGED <<idle, calls, op, unit, runRes>>
    /\ UNCHANGED nonPoolVars

\* the caller runs the next unit of work
NextRun ==
    /\ pc = "done"
    /\ pc' = "idle"
    /\ conn' = NoConn
    /\ calls' = <<>>
    /\ op' = NoOp
    /\ unit' = [n |-> 0, own |-> "none", res |-> Pending, ended |-> "none"]
    /\ runRes' = Pending
    /\ UNCHANGED idle
    /\ UNCHANGED nonPoolVars

Next ==
    \/ PoolRun
    \/ TransactionOpened
    \/ TransactionFailed
    \/ StartOp
    \/ PreAclResolved
    \/ PrepareResolved
    \/ QueryResolved
    \/ AfteropCheckResolved
    \/ AfteropJoined
    \/ UnitOk
    \/ UnitErr
    \/ CommitResolved
    \/ RollbackResolved
    \/ FutureDropped
    \/ NextRun

\* the same with a unit of work that may end the transaction itself
NextOwn ==
    \/ Next
    \/ UnitEndsTransaction
    \/ UnitEndResolved

----------------------------------------------------------------------------
(* AclEngine::allows and ensure_access of the shipped engines: SpecAcl *)

\* contexts are numbered 1..MaxCtx
MaxCtx == 2

\* a context: id is the value the caller moved in, val the content a
\* function that receives &mut Context may change
Ctx(id, val) == [id |-> id, val |-> val]
Ctxs == {Ctx(id, val) : id \in 1..MaxCtx, val \in 0..1}

AclErrors == {"AclError", "DbError"}

\* the function wrapped by an engine: what it returns and whether it writes
\* to the context it was lent
AclFn(ret, e, touch) == [ret |-> ret, e |-> e, touch |-> touch]
NoFn == AclFn("none", "none", FALSE)

AllEngines == {"SystemACL", "ForbiddenACL", "SyncACLFn", "InfallibleSyncACLFn", "AsyncACLFn"}

\* SyncACLFn: Fn(&mut Context) -> Result<bool, Error>; InfallibleSyncACLFn:
\* Fn(&mut Context) -> bool; AsyncACLFn: Fn(Context) -> Verdict, here one
\* that returns the context it was given
FnsOf(engine) ==
    CASE engine \in {"SyncACLFn", "AsyncACLFn"} ->
            {AclFn(r, "none", t) : r \in {"true", "false"}, t \in BOOLEAN}
            \cup {AclFn("err", e, t) : e \in AclErrors, t \in BOOLEAN}
      [] engine = "InfallibleSyncACLFn" ->
            {AclFn(r, "none", t) : r \in {"true", "false"}, t \in BOOLEAN}
      [] OTHER -> {NoFn}

\* Verdict<Context, E>: Item = (bool, Context), Error = (E, Context)
VerdictOk(allowed, ctx) == [state |-> "ok", allowed |-> allowed, e |-> NoError, ctx |-> ctx]
VerdictErr(e, ctx) == [state |-> "err", allowed |-> FALSE, e |-> e, ctx |-> ctx]
NoVerdict == [state |-> "pending", allowed |-> FALSE, e |-> NoError, ctx |-> Ctx(0, 0)]

\* (self.0)(&mut ctx): the context as the function left it
Lent(f, ctx) == IF f.touch THEN [ctx EXCEPT !.val = 1 - @] ELSE ctx

\* AclEngine::allows of the five engines
Allows(engine, f, ctx) ==
    CASE engine = "SystemACL" -> VerdictOk(TRUE, ctx)
      [] engine = "ForbiddenACL" -> VerdictOk(FALSE, ctx)
      [] engine = "InfallibleSyncACLFn" -> VerdictOk(f.ret = "true", Lent(f, ctx))
      [] engine \in {"SyncACLFn", "AsyncACLFn"} ->
            IF f.ret = "err" THEN VerdictErr(Error(f.e), Lent(f, ctx))
            ELSE VerdictOk(f.ret = "true", Lent(f, ctx))

\* the result of ensure_access: Item = Context, Error = (Error, Context)
AccessOk(ctx) == [state |-> "ok", e |-> NoError, ctx |-> ctx]
AccessErr(e, ctx) == [state |-> "err", e |-> e, ctx |-> ctx]
NoAccess == [state |-> "pending", e |-> NoError, ctx |-> Ctx(0, 0)]

AndThenAllowsAll(v) ==
    IF v.state = "err" THEN AccessErr(v.e, v.ctx) ELSE AccessOk(v.ctx)

\* ensure_access: the and_then closure over what allows yielded; an error of
\* allows passes through and_then untouched
AndThenAllowed(v) ==
    IF v.state = "err" THEN AccessErr(v.e, v.ctx)
    ELSE IF v.allowed THEN AccessOk(v.ctx)
    ELSE AccessErr(Error("Unauthorized"), v.ctx)

NoAcl ==
    [pc |-> "idle", engine |-> "SystemACL", f |-> NoFn, given |-> Ctx(0, 0),
     verdict |-> NoVerdict, res |-> NoAccess]

InitAcl == acl = NoAcl

\* engine.ensure_access(ctx): self.allows(ctx) is called, ctx is moved in
EnsureAccessCalled ==
    /\ acl.pc = "idle"
    /\ \E engine \in AllEngines, ctx \in Ctxs :
          \E f \in FnsOf(engine) :
             acl' = [NoAcl EXCEPT !.pc = "allows", !.engine = engine, !.f = f, !.given = ctx]
    /\ UNCHANGED nonAclVars

\* the future returned by allows resolves
AllowsResolved ==
    /\ acl.pc = "allows"
    /\ acl' = [acl EXCEPT !.pc = "and_then",
                          !.verdict = Allows(acl.engine, acl.f, acl.given)]
    /\ UNCHANGED nonAclVars

\* the and_then closure runs and ensure_access resolves
EnsureAccessResolved ==
    /\ acl.pc = "and_then"
    /\ acl' = [acl EXCEPT !.pc = "resolved", !.res = AndThenAllowed(acl.verdict)]
    /\ UNCHANGED nonAclVars

\* the caller makes the next check
NextCheck ==
    /\ acl.pc = "resolved"
    /\ acl' = NoAcl
    /\ UNCHANGED nonAclVars

NextAcl ==
    \/ EnsureAccessCalled
    \/ AllowsResolved
    \/ EnsureAccessResolved
    \/ NextCheck

----------------------------------------------------------------------------
(* TypedCache over InMemoryCache: SpecCache *)

\* the integer field of a cached value is in 1..MaxCacheVal
MaxCacheVal == 2

CacheKeys == {"key", ""}

\* T: a struct with an integer field and a float field; the float is a
\* finite number or NaN
Value(i, f) == [i |-> i, f |-> f]
NoneValue == Value(0, "none")
CacheValues == {Value(i, f) : i \in 1..MaxCacheVal, f \in {"0.5", "NaN"}}

\* Option<_>
None == [some |-> FALSE, v |-> NoneValue]
Some(v) == [some |-> TRUE, v |-> v]

\* Result<_, _> of a cache call: Ok(()), Ok(bool), Ok(Option<T>) or Err(e)
CacheOk(flag, opt) == [state |-> "ok", flag |-> flag, opt |-> opt, e |-> "none"]
CacheErr(e) == [state |-> "err", flag |-> FALSE, opt |-> None, e |-> e]

\* serde_json::to_string: the JSON text of a value; a non-finite float is
\* written as null
to_string(v) == [i |-> v.i, f |-> IF v.f = "NaN" THEN "null" ELSE v.f]

\* serde_json::from_str::<T>: null is not a float
from_str(json) ==
    IF json.f = "null" THEN CacheErr("JsonError")
    ELSE CacheOk(FALSE, Some(Value(json.i, json.f)))

\* HashMap<String, String>: every key has Some(json) or None
EmptyStore == [k \in CacheKeys |-> None]

\* InMemoryCache::get
InMemoryGet(store, key) == CacheOk(FALSE, store[key])

\* InMemoryCache::set
InMemorySet(store, key, json) == [store |-> [store EXCEPT ![key] = Some(json)],
                                  res |-> CacheOk(FALSE, None)]

RemovedAlways(found) == TRUE

\* the match on hash_map.remove(key): None => false, Some(_) => true
Removed(found) == found.some

\* InMemoryCache::remove
InMemoryRemove(store, key) == [store |-> [store EXCEPT ![key] = None],
                               res |-> CacheOk(Removed(store[key]), None)]

\* TypedCache::get
TypedGet(store, key) ==
    LET json_opt == InMemoryGet(store, key)
    IN  IF json_opt.state = "err" THEN CacheErr("BackendCacheError")
        ELSE IF ~json_opt.opt.some THEN CacheOk(FALSE, None)
        ELSE from_str(json_opt.opt.v)

\* TypedCache::set
TypedSet(store, key, value) == InMemorySet(store, key, to_string(value))

\* TypedCache::remove
TypedRemove(store, key) == InMemoryRemove(store, key)

NoCall == [call |-> "none", key |-> "", was |-> None, res |-> CacheOk(FALSE, None)]

\* store: the backend's map; latest: for every key the value of the latest
\* set not followed by a remove (history); last: the last call and its result
InitCache ==
    cache = [store |-> EmptyStore, latest |-> [k \in CacheKeys |-> None], last |-> NoCall]

CacheSet ==
    /\ \E key \in CacheKeys, value \in CacheValues :
          LET r == TypedSet(cache.store, key, value)
          IN  cache' = [store |-> r.store,
                        latest |-> [cache.latest EXCEPT ![key] = Some(value)],
                        last |-> [call |-> "set", key |-> key, was |-> cache.latest[key],
                                  res |-> r.res]]
    /\ UNCHANGED nonCacheVars

CacheGet ==
    /\ \E key \in CacheKeys :
          cache' = [cache EXCEPT !.last = [call |-> "get", key |-> key,
                                           was |-> cache.latest[key],
                                           res |-> TypedGet(cache.store, key)]]
    /\ UNCHANGED nonCacheVars

CacheRemove ==
    /\ \E key \in CacheKeys :
          LET r == TypedRemove(cache.store, key)
          IN  cache' = [store |-> r.store,
                        latest |-> [cache.latest EXCEPT ![key] = None],
                        last |-> [call |-> "remove", key |-> key, was |-> cache.latest[key],
                                  res |-> r.res]]
    /\ UNCHANGED nonCacheVars

NextCache ==
    \/ CacheSet
    \/ CacheGet
    \/ CacheRemove

----------------------------------------------------------------------------
(* TimeLimitedHttpClient: SpecHttp *)

\* time_limit given to TimeLimitedHttpClient::new is at most MaxBudget ticks
MaxBudget == 3
\* the clock runs from 0 to MaxTime
MaxTime == 2
\* requests made through the client and its clones
MaxRequests == 3

\* the client and a clone of it: both hold the same Arc<Mutex<Duration>>
Clients == {"timed_client", "timed_client_clone"}

MinOf(a, b) == IF a <= b THEN a ELSE b

\* Duration::checked_sub(..).unwrap_or(Duration::new(0, 0))
CheckedSubOrZero(a, b) == IF b > a THEN 0 ELSE a - b

TimedOutNever(time_left_before_request) == FALSE

\* if time_left_before_request == Duration::new(0, 0) { return err(Error::Timeout) }
TimedOut(time_left_before_request) == time_left_before_request = 0

NewTimeLeftIsOwn(time_left_current, time_left_after_request) == time_left_after_request

\* cmp::min(*time_left_current, time_left_after_request)
NewTimeLeft(time_left_current, time_left_after_request) ==
    MinOf(time_left_current, time_left_after_request)

\* a request: the client it was made through, the budget read when it was
\* made, the instant it was made, and once it has resolved its elapsed time
HttpRequest(via, state, before, start) ==
    [via |-> via, state |-> state, before |-> before, start |-> start, elapsed |-> 0]

\* no client yet
InitHttp ==
    http = [made |-> FALSE, limit |-> 0, time_left |-> 0, now |-> 0,
            reqs |-> <<>>, inner |-> <<>>]

\* TimeLimitedHttpClient::new(client, time_limit)
TimeLimitedHttpClientNew ==
    /\ ~http.made
    /\ \E time_limit \in 0..MaxBudget :
          http' = [http EXCEPT !.made = TRUE, !.limit = time_limit, !.time_left = time_limit]
    /\ UNCHANGED nonHttpVars

\* request(): the budget is read; at zero the call fails with Error::Timeout
\* at once, otherwise the clock is read and the inner client is called
HttpRequestMade ==
    /\ http.made
    /\ Len(http.reqs) < MaxRequests
    /\ \E via \in Clients :
          LET time_left_before_request == http.time_left
              n == Len(http.reqs) + 1
          IN  IF TimedOut(time_left_before_request)
              THEN http' = [http EXCEPT !.reqs = Append(@, HttpRequest(via, "Timeout",
                                                   time_left_before_request, http.now))]
              ELSE http' = [http EXCEPT !.reqs = Append(@, HttpRequest(via, "inflight",
                                                   time_left_before_request, http.now)),
                                        !.inner = Append(@, n)]
    /\ UNCHANGED nonHttpVars

\* the inner request resolved Ok: the map closure takes the minimum of the
\* shared budget and the budget this request leaves, and stores it
HttpResponse ==
    /\ \E i \in 1..Len(http.reqs) :
          /\ http.reqs[i].state = "inflight"
          /\ LET elapsed_time == http.now - http.reqs[i].start
                 time_left_after_request == CheckedSubOrZero(http.reqs[i].before, elapsed_time)
             IN  http' = [http EXCEPT !.reqs[i].state = "Ok",
                                      !.reqs[i].elapsed = elapsed_time,
                                      !.time_left = NewTimeLeft(@, time_left_after_request)]
    /\ UNCHANGED nonHttpVars

\* the inner request resolved Err: map does not run
HttpFailure ==
    /\ \E i \in 1..Len(http.reqs) :
          /\ http.reqs[i].state = "inflight"
          /\ http' = [http EXCEPT !.reqs[i].state = "Err",
                                   !.reqs[i].elapsed = http.now - http.reqs[i].start]
    /\ UNCHANGED nonHttpVars

\* time passes
Tick ==
    /\ http.made
    /\ http.now < MaxTime
    /\ http' = [http EXCEPT !.now = @ + 1]
    /\ UNCHANGED nonHttpVars

NextHttp ==
    \/ TimeLimitedHttpClientNew
    \/ HttpRequestMade
    \/ HttpResponse
    \/ HttpFailure
    \/ Tick

----------------------------------------------------------------------------
(* ClientHandle::simple_request and its retries: SpecRetry *)

\* max_retries of the ClientHandle is at most MaxRetries
MaxRetries == 4

\* http::client::Error
HttpError(kind, detail) == [kind |-> kind, detail |-> detail]
NoHttpError == HttpError("none", "")
HttpOk == HttpError("Ok", "body")

\* what the worker sends to the oneshot callback: Ok(body) or the error of
\* Client::send_request (two hyper errors stand for Error::Network(_))
WorkerResults ==
    {HttpOk, HttpError("Timeout", ""), HttpError("Api", ""), HttpError("Parse", "Cannot parse url"),
     HttpError("Network", "Io"), HttpError("Network", "Incomplete")}

RetriedAlways(err) == TRUE

\* the match of the or_else closure: only Error::Network(err) is retried
Retried(err) == err.kind = "Network"

\* send_request_with_retries: with no retries left the last error (or
\* Unknown when there is none) is the result; otherwise send_request is
\* called: the payload goes to the worker's channel
send_request_with_retries(r, last_err, retries) ==
    IF retries = 0
    THEN [r EXCEPT !.pc = "done", !.retries = retries, !.last_err = last_err,
                   !.res = IF last_err = NoHttpError
                           THEN HttpError("Unknown", "Unexpected missing error")
                           ELSE last_err]
    ELSE [r EXCEPT !.pc = "sending", !.retries = retries, !.last_err = last_err,
                   !.attempts = @ + 1]

\* send_request(..).or_else(..): an attempt resolved to outcome
AttemptResolved(r, outcome) ==
    LET tried == [r EXCEPT !.outcomes = Append(@, outcome)]
    IN  IF outcome = HttpOk THEN [tried EXCEPT !.pc = "done", !.res = outcome]
        ELSE IF Retried(outcome)
        THEN send_request_with_retries(tried, outcome, r.retries - 1)
        ELSE [tried EXCEPT !.pc = "done", !.res = outcome]

NoRequest ==
    [pc |-> "idle", max_retries |-> 0, retries |-> 0, last_err |-> NoHttpError,
     attempts |-> 0, outcomes |-> <<>>, res |-> NoHttpError]

InitRetry == retry = NoRequest

\* simple_request: send_request_with_retries(.., None, self.max_retries)
SimpleRequest ==
    /\ retry.pc = "idle"
    /\ \E max_retries \in 0..MaxRetries :
          retry' = send_request_with_retries([NoRequest EXCEPT !.max_retries = max_retries],
                                             NoHttpError, max_retries)
    /\ UNCHANGED nonRetryVars

\* tx.send(payload) resolved: the worker has the payload and the handle waits
\* on the oneshot receiver, or the channel is closed
SendResolved ==
    /\ retry.pc = "sending"
    /\ \E ok \in BOOLEAN :
          retry' = IF ok THEN [retry EXCEPT !.pc = "waiting"]
                   ELSE AttemptResolved(retry, HttpError("Unknown", "sending to channel"))
    /\ UNCHANGED nonRetryVars

\* the oneshot receiver resolved: with what the worker sent, or Canceled
\* because the worker dropped the callback
CallbackResolved ==
    /\ retry.pc = "waiting"
    /\ \E result \in WorkerResults \cup {HttpError("Unknown", "receiving from channel")} :
          retry' = AttemptResolved(retry, result)
    /\ UNCHANGED nonRetryVars

\* the caller makes its next request
NextRequest ==
    /\ retry.pc = "done"
    /\ retry' = NoRequest
    /\ UNCHANGED nonRetryVars

NextRetry ==
    \/ SimpleRequest
    \/ SendResolved
    \/ CallbackResolved
    \/ NextRequest

Init == InitStmt /\ InitPool /\ InitAcl /\ InitCache /\ InitHttp /\ InitRetry

Spec == Init /\ [][Next]_vars

SpecOwn == Init /\ [][NextOwn]_vars

SpecStmt == Init /\ [][NextStmt]_vars

SpecAcl == Init /\ [][NextAcl]_vars

SpecCache == Init /\ [][NextCache]_vars

SpecHttp == Init /\ [][NextHttp]_vars

\* every attempt resolves: the worker answers each payload or drops its callback
SpecRetry ==
    Init /\ [][NextRetry]_vars /\ WF_vars(SendResolved) /\ WF_vars(CallbackResolved)

----------------------------------------------------------------------------
(* Claims about Pool::run and DbRepoImpl, checked under Spec *)

Commits == Count(calls, "COMMIT")
Rollbacks == Count(calls, "ROLLBACK")
UnitResolved == unit.res.state # "pending"
OpResolved == pc = "unit" /\ op.pc = "resolved"
CallsOfOp == SubSeq(calls, op.callsBefore + 1, Len(calls))

\* C1: for a unit of work whose transaction was opened, exactly one of commit
\* and rollback is invoked on the connection before Pool::run resolves:
\* commit when the unit resolved Ok, rollback when it resolved Err; never
\* both, never neither, and none before the unit has resolved.
C1_ExactlyOneOfCommitRollback ==
    /\ Commits + Rollbacks <= 1
    /\ ~UnitResolved => Commits + Rollbacks = 0
    /\ (pc = "done" /\ unit.res.state = "ok") => (Commits = 1 /\ Rollbacks = 0)
    /\ (pc = "done" /\ unit.res.state = "err") => (Commits = 0 /\ Rollbacks = 1)
    /\ (pc \in {"done", "panicked"} /\ Len(calls) > 0 /\ ~UnitResolved) =>
           runRes = Err(Error("BeginError"))

C1_Witness ==
    /\ pc = "done"
    /\ unit.res.state = "err"
    /\ unit.res.e.root = "Unauthorized"
    /\ Rollbacks = 1

\* C2: Pool::run never leaks a connection: on every path on which it
\* resolves (commit succeeded or failed, rollback succeeded or failed, the
\* transaction could not be opened) a plain connection is handed back to the
\* underlying pool, and no path unwraps a Transaction.
C2_ConnectionHandedBack ==
    /\ pc # "panicked"
    /\ pc = "done" =>
          /\ idle = Conns
          /\ conn.kind = "Plain"
          /\ conn.holder = "bb8"
    /\ pc \notin {"idle", "done"} => (conn.id \in Conns /\ idle = Conns \ {conn.id})

C2_Witness ==
    /\ pc = "done"
    /\ runRes = Err(Error("RollbackError"))
    /\ idle = Conns

\* C3: whenever the unit of work fails with error e, Pool::run issues a
\* rollback and resolves to its caller with that same error e, whatever the
\* outcome of the rollback.
C3_UnitErrorPreserved ==
    (pc = "done" /\ unit.res.state = "err") =>
        /\ Rollbacks = 1
        /\ runRes = Err(unit.res.e)

\* C4: every DbRepoImpl operation returns the connection it was given
\* alongside its outcome, whatever the outcome; while the operation runs the
\* connection is held by exactly one of its steps and is never dropped.
C4_ConnectionReturnedWithOutcome ==
    /\ (pc = "unit" /\ op.pc \notin {"none", "resolved"}) =>
          /\ conn.id = op.given
          /\ conn.holder \in {"closure", "driver"}
    /\ OpResolved =>
          /\ op.resConn = op.given
          /\ conn.id = op.given
          /\ conn.holder = "unit"
          /\ op.res.state \in {"ok", "err"}

C4_Witness ==
    /\ OpResolved
    /\ op.at = "query"
    /\ op.res.state = "err"
    /\ op.resConn = op.given

\* C5: when the pre-operation engine denies, no prepare and no query is
\* issued on the connection, the operation fails with the Unauthorized error
\* and the connection it returns is the one it was given, still in its
\* transaction.
C5_PreDenyIssuesNoSql ==
    (OpResolved /\ op.pre = "ForbiddenACL") =>
        /\ CallsOfOp = <<>>
        /\ op.res.state = "err"
        /\ op.res.e.root = "Unauthorized"
        /\ op.resConn = op.given
        /\ conn.kind = "Transaction"
        /\ conn.holder = "unit"

C5_Witness ==
    /\ OpResolved
    /\ op.pre = "ForbiddenACL"
    /\ op.kind = "delete"
    /\ op.res.e.root = "Unauthorized"

AllowThenDeny == op.pre = "SystemACL" /\ op.after = "ForbiddenACL"

\* C6 as stated: with an always-allow pre-operation engine and an always-deny
\* afterop engine, the statement is prepared and executed and the operation
\* resolves to a failure, never to a success, whatever rows were returned.
C6_AfteropDenyAlwaysFails ==
    (OpResolved /\ AllowThenDeny /\ op.at \in {"afterop", "joined"}) =>
        /\ CallsOfOp = <<"prepare", "query">>
        /\ op.bulk.state = "err"

\* C6 as amended: with an always-allow pre-operation engine and an
\* always-deny afterop engine, a statement that executed and returned at
\* least one row makes the operation fail with Unauthorized; the operation
\* succeeds only when the statement executed and returned no row, and then
\* with the empty list.
C6_AfteropDenyFailsOnRows ==
    (OpResolved /\ AllowThenDeny) =>
        /\ (op.at \in {"afterop", "joined"}) => CallsOfOp = <<"prepare", "query">>
        /\ (op.at \in {"afterop", "joined"} /\ Len(op.rows) >= 1) =>
               (op.bulk.state = "err" /\ op.bulk.e.root = "Unauthorized")
        /\ op.bulk.state = "ok" =>
               (op.at = "joined" /\ op.rows = <<>> /\ op.bulk.v = Many(<<>>))

C6_Witness ==
    /\ OpResolved
    /\ AllowThenDeny
    /\ op.kind = "insert"
    /\ Len(op.rows) = 2
    /\ op.bulk.state = "err"

\* C7: an _exactly_one helper whose bulk operation succeeded with n entities
\* gives NoData for n = 0, ExtraData with extra = n - 1 for n > 1 and the
\* entity itself for n = 1; an error of the bulk operation passes unchanged.
C7_ExactlyOneCardinality ==
    (OpResolved /\ op.exactlyOne) =>
        LET n == Len(op.bulk.v.items)
        IN  /\ op.bulk.state = "err" => op.res = op.bulk
            /\ (op.bulk.state = "ok" /\ n = 0) => op.res = Err(Error("NoData"))
            /\ (op.bulk.state = "ok" /\ n > 1) =>
                   op.res = Err([root |-> "ExtraData", extra |-> n - 1, ctx |-> <<>>])
            /\ (op.bulk.state = "ok" /\ n = 1) =>
                   (op.res.state = "ok" /\ op.res.v.single /\ op.res.v.items = <<op.rows[1]>>)

C7_Witness ==
    /\ OpResolved
    /\ op.exactlyOne
    /\ op.kind = "update"
    /\ op.res.state = "err"
    /\ op.res.e.root = "ExtraData"
    /\ op.res.e.extra = 1

\* C12 as stated: select_full with limit Some(v), v < 1, fails with the
\* input-validation error and issues no prepare and no query; with limit None
\* or v >= 1 the validation never fails.
C12_BadLimitGivesLimitError ==
    (OpResolved /\ op.kind = "select") =>
        IF op.limit.some /\ op.limit.v < 1
        THEN /\ op.bulk.state = "err"
             /\ op.bulk.e.root = "LimitError"
             /\ CallsOfOp = <<>>
        ELSE op.bulk.e.root # "LimitError"

\* C12 as amended: select_full with limit Some(v), v < 1, never succeeds and
\* issues no prepare and no query; it fails with the input-validation error
\* (not a database error) when the pre-operation ACL check allowed, and with
\* the error of that check when it denied or failed; with limit None or
\* v >= 1 the validation never fails.
C12_BadLimitFailsWithoutSql ==
    (OpResolved /\ op.kind = "select") =>
        IF op.limit.some /\ op.limit.v < 1
        THEN /\ op.bulk.state = "err"
             /\ CallsOfOp = <<>>
             /\ op.at \in {"acl", "limit"}
             /\ op.at = "limit" => op.bulk.e.root = "LimitError"
             /\ op.at = "acl" => op.bulk.e.root \in {"Unauthorized", "AclError"}
        ELSE op.bulk.e.root # "LimitError" /\ op.at # "limit"

C12_Witness ==
    /\ OpResolved
    /\ op.kind = "select"
    /\ op.limit = SomeLimit(0)
    /\ op.at = "limit"
    /\ op.bulk.e.root = "LimitError"
    /\ CallsOfOp = <<>>

\* C13: for every shipped engine (SystemACL, ForbiddenACL, SyncACLFn,
\* InfallibleSyncACLFn, AsyncACLFn over a context-returning function)
\* ensure_access resolves to Ok exactly when allows yields true, to
\* Err(Unauthorized) exactly when allows yields false, and to Err(e) when
\* allows fails with e; in all three outcomes the context allows yielded, which
\* is the caller's context, is handed back.
C13_EnsureAccessFollowsAllows ==
    acl.pc = "resolved" =>
        LET v == acl.verdict
            r == acl.res
        IN  /\ v = Allows(acl.engine, acl.f, acl.given)
            /\ r.state = "ok" <=> (v.state = "ok" /\ v.allowed)
            /\ (r.state = "err" /\ r.e = Error("Unauthorized")) <=> (v.state = "ok" /\ ~v.allowed)
            /\ v.state = "err" => (r.state = "err" /\ r.e = v.e /\ r.e.root = acl.f.e)
            /\ r.ctx = v.ctx
            /\ r.ctx.id = acl.given.id
            /\ ~acl.f.touch => r.ctx = acl.given
            /\ acl.engine = "SystemACL" => r = AccessOk(acl.given)
            /\ acl.engine = "ForbiddenACL" => r = AccessErr(Error("Unauthorized"), acl.given)
            /\ acl.engine = "InfallibleSyncACLFn" => r.e.root \in {"none", "Unauthorized"}

C13_Witness ==
    /\ acl.pc = "resolved"
    /\ acl.engine = "SyncACLFn"
    /\ acl.f.ret = "false"
    /\ acl.res.state = "err"
    /\ acl.res.e.root = "Unauthorized"
    /\ acl.res.ctx.id = acl.given.id

\* C14: every database failure of a DbRepoImpl operation, in prepare or in
\* execute, is reported wrapped with the query text and the debug rendering
\* of its bound arguments, and with the stage label of the operation.
C14_DbFailureCarriesQueryAndStage ==
    (OpResolved /\ op.bulk.state = "err" /\ op.bulk.e.root = "DbError") =>
        /\ op.at \in {"prepare", "query"}
        /\ op.bulk.e.ctx = <<query_debug(op.query.sql, op.query.args), StageLabel(op.kind)>>

\* C15: if the future returned by Pool::run is dropped after the transaction
\* was opened and before the unit of work resolves, the transaction is rolled
\* back and the connection is returned to the pool; no cancellation point
\* (pre-operation ACL check, prepare, query, afterop checks, commit or
\* rollback) leaks the connection.
C15_DropRollsBackAndReturns ==
    (pc = "dropped" /\ conn.kind = "Transaction") =>
        /\ Rollbacks = 1
        /\ conn.id \in idle
        /\ conn.holder = "bb8"

\* C16: a roles repository built by make_repo for an Anonymous login gives no
\* access: every insert, select and delete issued through it resolves to the
\* Unauthorized error, never to a successful result.
C16_AnonymousGetsUnauthorized ==
    (OpResolved /\ op.after = "Anonymous") =>
        /\ op.res.state = "err"
        /\ op.res.e.root = "Unauthorized"

C18_ExhaustedBudgetTimesOut ==
    /\ [](\A i \in 1..Len(http.reqs) :
             /\ http.reqs[i].state = "Timeout" <=> http.reqs[i].before = 0
             /\ http.reqs[i].before = 0 <=> \A j \in 1..Len(http.inner) : http.inner[j] # i)
    /\ [][/\ http.made => http'.time_left <= http.time_left
          /\ (http.time_left = 0 /\ Len(http'.reqs) > Len(http.reqs)) =>
                 /\ http'.reqs[Len(http'.reqs)].state = "Timeout"
                 /\ http'.inner = http.inner]_vars

C18_Witness ==
    /\ Len(http.reqs) = 3
    /\ http.limit = 1
    /\ http.reqs[1].state = "Ok"
    /\ http.reqs[1].via = "timed_client"
    /\ http.reqs[1].elapsed = 2
    /\ http.reqs[2].state = "Timeout"
    /\ http.reqs[2].via = "timed_client_clone"
    /\ http.reqs[3].state = "Timeout"
    /\ http.reqs[3].via = "timed_client"
    /\ http.inner = <<1>>
    /\ http.time_left = 0

Succeeded == {i \in 1..Len(http.reqs) : http.reqs[i].state = "Ok"}
AllSucceeded == http.reqs # <<>> /\ Succeeded = 1..Len(http.reqs)
LeastOf(S) == CHOOSE x \in S : \A y \in S : x <= y
GreatestOf(S) == CHOOSE x \in S : \A y \in S : x >= y

\* C19: when several requests are started in parallel through one client and
\* all succeed, then in every completion order the remaining budget is the
\* minimum, over the requests, of the budget at that request's start minus
\* that request's elapsed time (a Duration, so zero when the request took
\* longer than the budget it started with); for requests all started with the
\* full budget this is the budget minus the longest elapsed time, not minus
\* the sum of the elapsed times.
C19_BudgetIsMinimumOverRequests ==
    AllSucceeded =>
        /\ http.time_left =
              LeastOf({CheckedSubOrZero(http.reqs[i].before, http.reqs[i].elapsed) : i \in Succeeded})
        /\ (\A i \in Succeeded : http.reqs[i].before = http.limit) =>
              http.time_left =
                 CheckedSubOrZero(http.limit, GreatestOf({http.reqs[i].elapsed : i \in Succeeded}))

C19_Witness ==
    /\ AllSucceeded
    /\ Len(http.reqs) = 3
    /\ http.limit = 3
    /\ \A i \in Succeeded : http.reqs[i].before = 3 /\ http.reqs[i].start = 0
    /\ http.reqs[1].elapsed = 2
    /\ http.reqs[2].elapsed = 1
    /\ http.reqs[3].elapsed = 1
    /\ http.time_left = 1

Mutations == {"insert", "update", "delete"}

\* the statement of the last operation executed and the operation then
\* failed: an afterop check denied or failed, or the _exactly_one helper did
\* not get exactly one entity
FailedAfterExecute ==
    /\ op.pc = "resolved"
    /\ \/ op.at = "afterop"
       \/ op.at = "joined" /\ op.exactlyOne /\ Len(op.rows) # 1

\* C20: for a unit of work that consists of a DbRepoImpl mutation (insert,
\* update or delete, or its _exactly_one helper), if the statement executed
\* successfully but the operation then fails in the afterop ACL check or the
\* cardinality check, Pool::run rolls the transaction back and never commits
\* it.
C20_FailedMutationIsRolledBack ==
    (op.kind \in Mutations /\ FailedAfterExecute) =>
        /\ Count(CallsOfOp, "query") = 1
        /\ op.res.state = "err"
        /\ Commits = 0
        /\ UnitResolved => (unit.res.state = "err" /\ Rollbacks = 1)
        /\ pc = "done" => runRes.state = "err"

C20_Witness ==
    /\ pc = "done"
    /\ op.kind = "delete"
    /\ op.exactlyOne
    /\ op.at = "joined"
    /\ Len(op.rows) = 2
    /\ op.res.e.root = "ExtraData"
    /\ calls = <<"BEGIN", "prepare", "query", "ROLLBACK">>
    /\ runRes = Err(op.res.e)

\* C21: the afterop check over the result batch is all-or-nothing under every
\* interleaving of the per-entity checks: when every check allowed, the
\* operation returns all the entities in the order of the rows; when a check
\* denied or failed, it returns no entity and fails with the error of a
\* failing check; it does not resolve while the batch check is under way.
C21_AfteropAllOrNothing ==
    /\ op.pc = "afterop" =>
           /\ op.bulk = Pending /\ op.res = Pending
           /\ \A i \in 1..Len(op.checks) : op.checks[i] \in {"pending", "allowed"}
    /\ (op.pc = "resolved" /\ op.at = "joined") =>
           /\ \A i \in 1..Len(op.rows) : op.checks[i] = "allowed"
           /\ op.bulk = Ok(Many(op.rows))
           /\ \A i \in 1..Len(op.rows) : op.rows[i] = i
    /\ (op.pc = "resolved" /\ op.at = "afterop") =>
           /\ op.bulk.state = "err" /\ op.bulk.v = NoValue
           /\ op.res.state = "err" /\ op.res.v = NoValue
           /\ \E i \in 1..Len(op.checks) :
                 /\ op.checks[i] \in {"deny", "error"}
                 /\ op.bulk.e = WithContext(EnsureAccess(op.checks[i]).e, StageLabel(op.kind))
    /\ (op.pc = "resolved" /\ op.at \in {"joined", "afterop"}) =>
           Len(op.checks) = Len(op.rows)

\* the second of two checks allowed first, then the first one denied
C21_Witness ==
    /\ op.pc = "resolved"
    /\ op.at = "afterop"
    /\ op.after = "SyncACLFn"
    /\ op.checks = <<"deny", "allowed">>
    /\ op.res.e.root = "Unauthorized"
    /\ op.res.v.items = <<>>

\* the steps of an operation that runs to its end with every step succeeding
FullTrace ==
    << <<"acl", "start">>, <<"acl", "ok">>, <<"prepare", "start">>, <<"prepare", "ok">>,
       <<"query", "start">>, <<"query", "ok">>, <<"afterop", "start">>, <<"afterop", "ok">> >>

IsPrefixOfFullTrace(t) ==
    Len(t) <= Len(FullTrace) /\ \A i \in 1..Len(t) : t[i] = FullTrace[i]

\* every step but the last succeeded, the last one failed
FailedAtLast(t) ==
    /\ Len(t) >= 2
    /\ IsPrefixOfFullTrace(SubSeq(t, 1, Len(t) - 1))
    /\ \/ Len(t) <= Len(FullTrace) /\ t[Len(t)] = <<FullTrace[Len(t)][1], "err">>
                                    /\ FullTrace[Len(t)][2] = "ok"
       \/ t = <<FullTrace[1], FullTrace[2], <<"limit", "err">> >>

\* the statements the driver was given, as the trace has them starting
SqlStarted(t) ==
    LET starts == SelectSeq(t, LAMBDA e : e[2] = "start" /\ e[1] \in {"prepare", "query"})
    IN  [i \in 1..Len(starts) |-> starts[i][1]]

SqlOfOp == SelectSeq(CallsOfOp, LAMBDA c : c \in {"prepare", "query"})

\* C22: within one DbRepoImpl operation the steps are strictly sequential: the
\* pre-operation check completes before prepare starts, prepare hands the
\* connection back before the query starts, all rows are collected before the
\* first afterop check starts, the connection is never with two steps at
\* once, and a step that fails ends the operation with no later step run.
C22_StepsSequential ==
    op.pc # "none" =>
        /\ IsPrefixOfFullTrace(op.trace) \/ FailedAtLast(op.trace)
        /\ SqlOfOp = SqlStarted(op.trace)
        /\ op.pc = "resolved" <=> (FailedAtLast(op.trace) \/ op.trace = FullTrace)
        /\ op.pc # "resolved" => op.trace[Len(op.trace)] = <<op.pc, "start">>
        /\ Len(op.checks) > 0 =>
               /\ \E i \in 1..Len(op.trace) : op.trace[i] = <<"query", "ok">>
               /\ Len(op.checks) = Len(op.rows)
        /\ pc = "unit" =>
               /\ conn.holder = "driver" <=> op.pc \in {"prepare", "query"}
               /\ conn.holder = "closure" <=> op.pc \in {"acl", "afterop"}
               /\ conn.holder = "unit" <=> op.pc = "resolved"
               /\ conn.id = op.given

\* prepare failed: the query never started and no check ran
C22_Witness ==
    /\ pc = "unit"
    /\ op.pc = "resolved"
    /\ op.trace = << <<"acl", "start">>, <<"acl", "ok">>, <<"prepare", "start">>,
                     <<"prepare", "err">> >>
    /\ CallsOfOp = <<"prepare">>
    /\ op.checks = <<>>
    /\ conn.holder = "unit"

Occurrences(t, e) == Len(SelectSeq(t, LAMBDA x : x = e))

\* C23: no DbRepoImpl operation retries: on every path, the failing ones
\* included, one call of insert, select_full, update or delete issues at most
\* one prepare and at most one query on the connection and runs the
\* pre-operation check exactly once.
C23_NoRetry ==
    op.pc # "none" =>
        /\ Count(CallsOfOp, "prepare") <= 1
        /\ Count(CallsOfOp, "query") <= 1
        /\ Occurrences(op.trace, <<"acl", "start">>) = 1
        /\ Occurrences(op.trace, <<"acl", "ok">>) + Occurrences(op.trace, <<"acl", "err">>) <= 1
        /\ Occurrences(op.trace, <<"afterop", "start">>) <= 1
        /\ op.pc = "resolved" =>
               Occurrences(op.trace, <<"acl", "ok">>) + Occurrences(op.trace, <<"acl", "err">>) = 1

\* the query failed and the run ended rolled back: one prepare, one query
C23_Witness ==
    /\ pc = "done"
    /\ op.at = "query"
    /\ op.res.state = "err"
    /\ calls = <<"BEGIN", "prepare", "query", "ROLLBACK">>
    /\ Occurrences(op.trace, <<"acl", "start">>) = 1

\* C24: every afterop check receives the Action of the repository operation
\* that produced the entity: Insert for insert, Select for select_full,
\* Update for update, Delete for delete; for every entity of the batch, and
\* for update also when the updater set no values and the statement executed
\* was the degraded SELECT.
C24_AfteropActionIsOperation ==
    /\ Len(op.ctxs) = Len(op.checks)
    /\ \A i \in 1..Len(op.ctxs) :
          /\ op.ctxs[i][1] = op.rows[i]
          /\ op.kind = "insert" => op.ctxs[i][2] = "Insert"
          /\ op.kind = "select" => op.ctxs[i][2] = "Select"
          /\ op.kind = "update" => op.ctxs[i][2] = "Update"
          /\ op.kind = "delete" => op.ctxs[i][2] = "Delete"

\* an update with no values ran the degraded SELECT and its two entities
\* were checked as updates
C24_Witness ==
    /\ op.kind = "update"
    /\ ~op.hasValues
    /\ op.pc = "resolved"
    /\ op.at = "joined"
    /\ Head(op.query.sql) = Lit("SELECT *")
    /\ op.ctxs = << <<1, "Update">>, <<2, "Update">> >>
    /\ op.checks = <<"allowed", "allowed">>

\* the comparisons a built statement makes with column c, in the order of the
\* WHERE clause, each with the argument its placeholder binds
ComparisonsOfColumn(sql, args, c) ==
    LET ph == Positions(sql, "ph")
        idx == SelectSeq([i \in 1..Len(ph) |-> i],
                         LAMBDA i : /\ ~IsSetPlaceholder(sql, ph[i])
                                    /\ ColumnOfPlaceholder(sql, ph, i) = c)
    IN  [j \in 1..Len(idx) |->
            Cmp(SymbolMode(sql[IdentBefore(sql, ph[idx[j]]) + 2].s), args[idx[j]])]

WhereColumns(sql) ==
    LET ph == Positions(sql, "ph")
    IN  {ColumnOfPlaceholder(sql, ph, i) :
            i \in {h \in 1..Len(ph) : ~IsSetPlaceholder(sql, ph[h])}}

\* C25: with_filter is last-write-wins per column: after any sequence of
\* with_filter calls the built statement contains for each column only the
\* comparisons of the last call made for that column (earlier comparisons
\* for it, and their arguments, are absent), and calls for other columns are
\* unaffected.
C25_WithFilterLastWriteWins ==
    (bpc = "built" /\ built.by \in {"Select", "Delete", "Update"}) =>
        /\ WhereColumns(built.sql) = DOMAIN lastFilter
        /\ \A c \in DOMAIN lastFilter :
              ComparisonsOfColumn(built.sql, built.args, c) = NewFilters(lastFilter[c].range)

\* a Between on column a was replaced by an Exact, column ab was given once
C25_Witness ==
    /\ bpc = "built"
    /\ built.by = "Select"
    /\ DOMAIN lastFilter = FilterColumns
    /\ lastFilter[NameA].replaced
    /\ lastFilter[NameA].range = Exact(2)
    /\ ~lastFilter[NameAB].replaced
    /\ lastFilter[NameAB].range.tag = "Between"
    /\ Len(built.args) = 3
    /\ built.args[1] = BoxScalar(2)

LowerSymbol(l) == IF l.inclusive THEN ">=" ELSE ">"
UpperSymbol(l) == IF l.inclusive THEN "<=" ELSE "<"

\* the text and the argument of the comparisons of column c, one
\* [text, arg] per placeholder: the tokens from the column name to the
\* placeholder (and the closing parenthesis of any(..))
RenderedComparisons(sql, args, c) ==
    LET ph == Positions(sql, "ph")
        idx == SelectSeq([i \in 1..Len(ph) |-> i],
                         LAMBDA i : /\ ~IsSetPlaceholder(sql, ph[i])
                                    /\ ColumnOfPlaceholder(sql, ph, i) = c)
    IN  [j \in 1..Len(idx) |->
            LET p == ph[idx[j]]
                q == IdentBefore(sql, p)
                last == IF p < Len(sql) /\ sql[p + 1] = Lit(")") THEN p + 1 ELSE p
            IN  [text |-> [t \in 1..(last - q + 1) |->
                              IF sql[q + t - 1].k = "ph" THEN Lit("$n") ELSE sql[q + t - 1]],
                 arg |-> args[idx[j]]]]

ColOpArg(c, symbol, v) ==
    [text |-> <<Ident(c), Lit(" "), Lit(symbol), Lit(" "), Lit("$n")>>, arg |-> BoxScalar(v)]

\* C26: with_filter converts each Range to comparisons, for both values of
\* every inclusive flag: Exact(v) gives one (=, v); From(l) one (>= if
\* inclusive else >, l.value); To(l) one (<= if inclusive else <, l.value);
\* Between(from, to) two, the lower-bound comparison then the upper-bound
\* one; In(values) one comparison bound as a single array argument and
\* rendered "col = any($n)".
C26_RangeToComparisons ==
    (bpc = "built" /\ built.by \in {"Select", "Delete", "Update"}) =>
        \A c \in DOMAIN lastFilter :
            LET r == lastFilter[c].range
                got == RenderedComparisons(built.sql, built.args, c)
            IN  /\ r.tag = "Exact" => got = <<ColOpArg(c, "=", r.v)>>
                /\ r.tag = "From" => got = <<ColOpArg(c, LowerSymbol(r.from), r.from.value)>>
                /\ r.tag = "To" => got = <<ColOpArg(c, UpperSymbol(r.to), r.to.value)>>
                /\ r.tag = "Between" =>
                       got = <<ColOpArg(c, LowerSymbol(r.from), r.from.value),
                               ColOpArg(c, UpperSymbol(r.to), r.to.value)>>
                /\ r.tag = "In" =>
                       got = << [text |-> <<Ident(c), Lit(" "), Lit("= any("), Lit("$n"), Lit(")")>>,
                                 arg |-> [arr |-> TRUE, items |-> r.values]] >>

\* a half-open Between on one column and an In on the other, in a DELETE
C26_Witness ==
    /\ bpc = "built"
    /\ built.by = "Delete"
    /\ DOMAIN lastFilter = FilterColumns
    /\ lastFilter[NameA].range = Between(RangeLimit(1, TRUE), RangeLimit(1 + MaxVal, FALSE))
    /\ lastFilter[NameAB].range = In(<<2>>)
    /\ Len(built.args) = 3
    /\ built.args[3] = BoxArray(<<2>>)

\* what Pool::run itself invoked to end the transaction
PoolInvocations ==
    SelectSeq(calls, LAMBDA c : c \in {"COMMIT", "ROLLBACK", "commit2 on plain",
                                       "rollback2 on plain"})

\* C27: Pool::run never unwraps a resource that is still a Transaction: on
\* every path the resource passes through commit2 or rollback2 first, and
\* both hand back a plain connection on success and on failure, also when the
\* unit of work returns a resource it has already committed or rolled back
\* itself.
C27_NeverUnwrapsTransaction ==
    /\ pc # "panicked"
    /\ (pc = "unit" /\ unit.own = "done") => conn.kind = "Plain"
    /\ pc \in {"committing", "rollingback"} =>
           (conn.kind = "Transaction" /\ Len(PoolInvocations) = 1)
    /\ (pc = "done" /\ UnitResolved) =>
           /\ Len(PoolInvocations) = 1
           /\ calls[Len(calls)] = PoolInvocations[1]
           /\ PoolInvocations[1] \in {"commit2 on plain", "rollback2 on plain"}
                 <=> unit.own = "done"
           /\ conn.kind = "Plain"
           /\ conn.holder = "bb8"
           /\ idle = Conns

\* the unit committed the transaction itself and failed afterwards: Pool::run
\* called rollback2 on the plain connection and unwrapped it
C27_Witness ==
    /\ pc = "done"
    /\ unit.own = "done"
    /\ calls = <<"BEGIN", "COMMIT by unit", "rollback2 on plain">>
    /\ runRes = Err(Error("UnitError"))
    /\ conn.kind = "Plain"
    /\ idle = Conns

\* C28: if the unit of work succeeds with value v but the commit fails,
\* Pool::run resolves with the commit error (v is discarded, never returned
\* as a success), no rollback is issued afterwards, and the connection is
\* still returned to the pool.
C28_CommitFailureIsTheResult ==
    (unit.res.state = "ok" /\ unit.ended = "failed") =>
        /\ pc = "done"
        /\ runRes = Err(Error("CommitError"))
        /\ runRes.v = NoValue
        /\ Commits = 1
        /\ Rollbacks = 0
        /\ calls[Len(calls)] = "COMMIT"
        /\ conn = Conn(conn.id, "Plain", "bb8")
        /\ idle = Conns

\* an insert_exactly_one gave its entity, the commit failed
C28_Witness ==
    /\ pc = "done"
    /\ unit.res = Ok(One(1))
    /\ unit.ended = "failed"
    /\ op.kind = "insert"
    /\ calls = <<"BEGIN", "prepare", "query", "COMMIT">>
    /\ runRes = Err(Error("CommitError"))
    /\ idle = Conns

BadLimit == op.kind = "select" /\ op.limit.some /\ op.limit.v < 1

\* C29: in select_full the pre-operation check runs before the limit
\* validation: a call with limit < 1 whose select engine denies fails with
\* Unauthorized, not the limit error; the limit error is produced only when
\* the check allowed; and while the select engine has not resolved the
\* operation reports no limit error.
C29_AclBeforeLimit ==
    BadLimit =>
        /\ op.pc = "acl" => (op.res = Pending /\ op.trace = << <<"acl", "start">> >>)
        /\ (op.pc = "resolved" /\ op.trace[2] = <<"acl", "err">>) =>
               /\ op.res.state = "err"
               /\ op.res.e.root \in {"Unauthorized", "AclError"}
               /\ op.pre = "ForbiddenACL" => op.res.e.root = "Unauthorized"
        /\ (op.pc = "resolved" /\ op.res.e.root = "LimitError") =>
               /\ op.trace = << <<"acl", "start">>, <<"acl", "ok">>, <<"limit", "err">> >>
               /\ op.pre # "ForbiddenACL"
        /\ (op.pc = "resolved" /\ op.pre = "ForbiddenACL") => op.res.e.root = "Unauthorized"
        /\ op.pc \in {"acl", "resolved"}

\* limit 0 under an engine that denies: Unauthorized
C29_Witness ==
    /\ op.kind = "select"
    /\ op.limit = SomeLimit(0)
    /\ op.pre = "ForbiddenACL"
    /\ op.pc = "resolved"
    /\ op.trace = << <<"acl", "start">>, <<"acl", "err">> >>
    /\ op.res.e.root = "Unauthorized"
    /\ CallsOfOp = <<>>

\* C30: ClientHandle::simple_request with max_retries = n ends after at most
\* n attempts sent to the worker: another attempt is sent only after an
\* Error::Network; a success or any other error (Timeout, Api, Parse,
\* Unknown) ends it at once with that outcome; after n Network errors it
\* fails with the last Network error; with n = 0 it fails with an Unknown
\* error without sending any attempt.
C30_RetriesBounded ==
    /\ [](LET n == retry.max_retries
              tried == Len(retry.outcomes)
          IN  /\ retry.attempts <= n
              /\ retry.pc \in {"sending", "waiting"} =>
                     (retry.attempts = tried + 1 /\ retry.res = NoHttpError)
              /\ \A i \in 1..(retry.attempts - 1) : retry.outcomes[i].kind = "Network"
              /\ retry.pc = "done" =>
                     /\ retry.attempts = tried
                     /\ n = 0 => (tried = 0 /\ retry.res.kind = "Unknown")
                     /\ tried > 0 => retry.res = retry.outcomes[tried]
                     /\ (tried > 0 /\ retry.outcomes[tried].kind = "Network") => tried = n
                     /\ (tried > 0 /\ retry.outcomes[tried].kind # "Network") =>
                            retry.res.kind \in {"Ok", "Timeout", "Api", "Parse", "Unknown"})
    /\ [](retry.pc \in {"sending", "waiting"} => <>(retry.pc = "done"))

\* three attempts, three Network errors: the last one is the result
C30_Witness ==
    /\ retry.pc = "done"
    /\ retry.max_retries = 3
    /\ retry.attempts = 3
    /\ retry.outcomes = <<HttpError("Network", "Io"), HttpError("Network", "Io"),
                          HttpError("Network", "Incomplete")>>
    /\ retry.res = HttpError("Network", "Incomplete")

====
